---- MODULE Spec2Model ----
(***************************************************************************)
(* Walletfy backend: the authentication subsystem (credential store,      *)
(* token authority, session store, authentication resolver and the        *)
(* credential entry points) as a state machine.                           *)
(*                                                                         *)
(* Strings are sequences of byte codes (<<97,98,99>> is "abc"), so that   *)
(* trimming, splitting, base64 and length checks are computed as the      *)
(* code computes them.  An optional value is a sequence of length 0 or 1. *)
(***************************************************************************)
EXTENDS Integers, Sequences, FiniteSets, TLC

\* ------------------------------------------------------------------ bounds
MaxUsers  == 2   \* calls of UserModel.create the model follows (uuid supply)
MaxTokens == 1   \* tokens a client keeps for later presentation
MaxTicks  == 2   \* advances of the wall clock
MaxSlots  == 2   \* registration requests that can be in flight together
MaxSids   == 1   \* session ids the session layer hands out
MaxEvents == 2   \* calls of EventModel.create the model follows (uuid supply)
MaxConnections == 2   \* connections open to the HTTP server at a time
MaxSignals == 2   \* termination signals delivered to the process

\* --------------------------------------------------------- program constants
ExpiresIn   == 86400   \* '24h' in seconds (jsonwebtoken NumericDate unit)
UsernameMin == 3
UsernameMax == 50
PasswordMin == 6
PasswordMax == 100
NombreMin      == 1
NombreMax      == 100
DescripcionMax == 500
CantidadMin    == 1           \* 0.01, in hundredths
CantidadMax    == 999999999   \* in units
FechaMin       == -25567      \* 1900-01-01, in days from 1970-01-01
FechaMax       == 365         \* 365 days after the schema is built
LimitMax       == 1000
PageDefault    == 1
LimitDefault   == 10
OffsetMax      == 1000000     \* skip is clamped to this many documents

\* ------------------------------------------------------------------ strings
COLON == 58
EQ    == 61

None == <<>>
Some(x) == <<x>>

\* a value that is not a string (a missing or non-string JSON field)
NotAString == <<-1>>

\* characters String.prototype.trim removes (the ASCII ones)
IsSpace(c) == c \in {9, 10, 11, 12, 13, 32}

RECURSIVE TrimStart(_)
TrimStart(s) ==
  IF s = <<>> THEN s
  ELSE IF IsSpace(Head(s)) THEN TrimStart(Tail(s)) ELSE s

RECURSIVE TrimEnd(_)
TrimEnd(s) ==
  IF s = <<>> THEN s
  ELSE IF IsSpace(s[Len(s)]) THEN TrimEnd(SubSeq(s, 1, Len(s) - 1)) ELSE s

Trim(s) == TrimEnd(TrimStart(s))

\* position of the first sep in s, 0 when there is none
RECURSIVE IndexOf(_, _, _)
IndexOf(s, sep, i) ==
  IF i > Len(s) THEN 0
  ELSE IF s[i] = sep THEN i ELSE IndexOf(s, sep, i + 1)

\* String.prototype.split(sep) for a one-character separator
RECURSIVE Split(_, _)
Split(s, sep) ==
  LET i == IndexOf(s, sep, 1)
  IN  IF i = 0 THEN <<s>>
      ELSE <<SubSeq(s, 1, i - 1)>> \o Split(SubSeq(s, i + 1, Len(s)), sep)

\* ------------------------------------------------------------------- base64
\* value of a base64 digit, -1 for a character outside the alphabet
B64Value(c) ==
  IF c >= 65 /\ c <= 90 THEN c - 65
  ELSE IF c >= 97 /\ c <= 122 THEN c - 71
  ELSE IF c >= 48 /\ c <= 57 THEN c + 4
  ELSE IF c = 43 THEN 62
  ELSE IF c = 47 THEN 63
  ELSE -1

B64Digit(v) ==
  IF v < 26 THEN v + 65
  ELSE IF v < 52 THEN v + 71
  ELSE IF v < 62 THEN v - 4
  ELSE IF v = 62 THEN 43 ELSE 47

\* Buffer.toString('base64') of a byte sequence (what a client sends)
RECURSIVE Base64Encode(_)
Base64Encode(b) ==
  IF Len(b) = 0 THEN <<>>
  ELSE IF Len(b) = 1 THEN
    << B64Digit(b[1] \div 4), B64Digit((b[1] % 4) * 16), EQ, EQ >>
  ELSE IF Len(b) = 2 THEN
    << B64Digit(b[1] \div 4),
       B64Digit((b[1] % 4) * 16 + b[2] \div 16),
       B64Digit((b[2] % 16) * 4), EQ >>
  ELSE
    << B64Digit(b[1] \div 4),
       B64Digit((b[1] % 4) * 16 + b[2] \div 16),
       B64Digit((b[2] % 16) * 4 + b[3] \div 64),
       B64Digit(b[3] % 64) >> \o Base64Encode(SubSeq(b, 4, Len(b)))

\* the sextets of the digits before the first '=', other characters skipped
RECURSIVE Sextets(_)
Sextets(s) ==
  IF s = <<>> \/ Head(s) = EQ THEN <<>>
  ELSE IF B64Value(Head(s)) < 0 THEN Sextets(Tail(s))
  ELSE <<B64Value(Head(s))>> \o Sextets(Tail(s))

RECURSIVE SextetsToBytes(_)
SextetsToBytes(v) ==
  IF Len(v) < 2 THEN <<>>
  ELSE IF Len(v) = 2 THEN << v[1] * 4 + v[2] \div 16 >>
  ELSE IF Len(v) = 3 THEN
    << v[1] * 4 + v[2] \div 16, (v[2] % 16) * 16 + v[3] \div 4 >>
  ELSE
    << v[1] * 4 + v[2] \div 16,
       (v[2] % 16) * 16 + v[3] \div 4,
       (v[3] % 4) * 64 + v[4] >> \o SextetsToBytes(SubSeq(v, 5, Len(v)))

\* Buffer.from(s, 'base64')
Base64Decode(s) == SextetsToBytes(Sextets(s))

\* Buffer.toString('ascii'): the high bit of every byte is dropped
RECURSIVE ToAscii(_)
ToAscii(b) ==
  IF b = <<>> THEN <<>> ELSE <<Head(b) % 128>> \o ToAscii(Tail(b))

\* ------------------------------------------------------------------- inputs
uAbc    == <<97, 98, 99>>                 \* "abc"
uXyz    == <<120, 121, 122>>              \* "xyz"
uPadded == <<32, 97, 98, 99>>             \* " abc"
uShort  == <<97, 98>>                     \* "ab"
uThin   == <<32, 97, 98>>                 \* " ab"
uBlank  == <<32, 32, 32>>                 \* "   "
pSecret == <<115, 101, 99, 114, 101, 116>>   \* "secret"
pColon  == <<115, 101, 58, 114, 101, 116>>   \* "se:ret"
pShort  == <<97, 98, 99>>                    \* "abc"

RegUsernames   == {uAbc, uXyz, uPadded, uShort}
RegPasswords   == {pSecret, pColon, pShort}
LoginUsernames == {uAbc, uXyz, uPadded, NotAString}
LoginPasswords == {pSecret, pColon}

Secrets == {"s1"}            \* values JWT_SECRET is configured with
ForgedSecret == "s2"         \* a key the server never uses

\* the clock advances by one of these amounts (milliseconds)
Deltas == {500, ExpiresIn * 1000 - 500}

\* ------------------------------------------------------------------- state
VARIABLES
  jwtSecret,   \* process.env.JWT_SECRET: None or Some(secret)
  now,         \* Date.now(), milliseconds
  ticks,       \* number of clock advances so far
  users,       \* the users collection: records id, username, password, createdAt
  nextId,      \* supply of uuidv4 values
  sessions,    \* session store: session id -> None or Some([id, username])
  nextSid,     \* supply of session ids
  regs,        \* registration requests in flight: slot -> [pc, data]
  issued,      \* tokens clients hold: [tok, at (issuance instant), user]
  okLog,       \* usernames of the registrations answered 201, in order
  loggedOut,   \* session ids whose logout was answered 200 and not bound since
  last,        \* the latest response: the entry point, status, cookie clearing
  events,      \* the events collection: records with a unique id
  nextEventId, \* supply of uuidv4 values for events
  server,      \* the HTTP server: "listening", "closing" or "closed"
  connections, \* connections open to the HTTP server
  readyState,  \* mongoose.connection.readyState
  shutdowns,   \* the invocations of shutdown, in order: where each one is
  exitCode     \* None while the process runs, else Some(code)

vars == << jwtSecret, now, ticks, users, nextId, sessions, nextSid, regs,
           issued, okLog, loggedOut, last, events, nextEventId,
           server, connections, readyState, shutdowns, exitCode >>

\* the HTTP server, the database connection and the process
lifecycle == << server, connections, readyState, shutdowns, exitCode >>

SessionIds == 1..MaxSids
Slots == 1..MaxSlots

\* seconds clock of jsonwebtoken: Math.floor(Date.now() / 1000)
NowSec == now \div 1000

\* ---------------------------------------------------------------- responses
NoBody == [error |-> None, message |-> None, user |-> None, token |-> None,
           details |-> None, event |-> None, page |-> None]

\* setCookie: the session id of a Set-Cookie the session layer adds
Response(status, body, clearCookie) ==
  [status |-> status, body |-> body, clearCookie |-> clearCookie,
   setCookie |-> None]

\* res.status(s).json({ error: e, message: m })
ErrorJson(status, e, m) ==
  Response(status, [NoBody EXCEPT !.error = Some(e), !.message = Some(m)], FALSE)

\* an error passed to next(error)
ZodError(paths) ==
  [kind |-> "ZodError", paths |-> paths, statusCode |-> 0, message |-> "zod"]
PlainError(name, message) ==
  [kind |-> name, paths |-> {}, statusCode |-> 0, message |-> message]

\* an error handler that answers an unexpected error with its own message
errorHandlerLeaking(error) ==
  IF error.kind = "ZodError"
  THEN Response(400, [NoBody EXCEPT !.error = Some("Validation error"),
                                    !.details = Some(error.paths)], FALSE)
  ELSE Response(IF error.statusCode # 0 THEN error.statusCode ELSE 500,
                [NoBody EXCEPT !.error = Some(error.message)], FALSE)

\* an error handler that adds a message field to every body
errorHandlerWithMessage(error) ==
  IF error.kind = "ZodError"
  THEN Response(400, [NoBody EXCEPT !.error = Some("Validation error"),
                                    !.message = Some("Invalid input"),
                                    !.details = Some(error.paths)], FALSE)
  ELSE IF error.statusCode # 0
  THEN Response(error.statusCode,
                [NoBody EXCEPT !.error = Some(error.kind),
                               !.message = Some(error.message)], FALSE)
  ELSE Response(500, [NoBody EXCEPT !.error = Some("Internal Server Error"),
                                    !.message = Some("Unexpected error")],
                FALSE)

\* the global error handler: a ZodError gives 400 with details, an error with
\* a statusCode gives that status and its message, any other error gives 500
\* 'Internal Server Error'
errorHandler(error) ==
  IF error.kind = "ZodError"
  THEN Response(400, [NoBody EXCEPT !.error = Some("Validation error"),
                                    !.details = Some(error.paths)], FALSE)
  ELSE IF error.statusCode # 0
  THEN Response(error.statusCode,
                [NoBody EXCEPT !.error = Some(error.message)], FALSE)
  ELSE Response(500, [NoBody EXCEPT !.error = Some("Internal Server Error")],
                FALSE)

\* ------------------------------------------------------------ zod schemas
\* z.string().min(3).max(50).trim(): the checks run in the order written, so
\* the length checks see the untrimmed string
UsernameIssue(v) ==
  v = NotAString \/ Len(v) < UsernameMin \/ Len(v) > UsernameMax
PasswordIssue(v) ==
  v = NotAString \/ Len(v) < PasswordMin \/ Len(v) > PasswordMax

\* createUserSchema.parse / loginUserSchema.parse (the two schemas are equal)
SchemaParse(body) ==
  LET paths == (IF UsernameIssue(body.username) THEN {"username"} ELSE {})
               \cup (IF PasswordIssue(body.password) THEN {"password"} ELSE {})
  IN  IF paths # {}
      THEN [ok |-> FALSE, error |-> ZodError(paths),
            data |-> [username |-> <<>>, password |-> <<>>]]
      ELSE [ok |-> TRUE, error |-> ZodError({}),
            data |-> [username |-> Trim(body.username),
                      password |-> body.password]]

\* ------------------------------------------------------------- UserModel
\* bcrypt.hash(password, 10): a salted digest; bcrypt.compare recomputes it
BcryptHash(password, salt) == [salt |-> salt, digest |-> password]
BcryptCompare(password, hash) == hash.digest = password

\* a projection that keeps every field of the document
PublicWhole(u) == u

\* the toObject transform and the findById projection: no password
Public(u) == [id |-> u.id, username |-> u.username, createdAt |-> u.createdAt]

findByUsername(username) ==
  IF \E u \in users : u.username = username
  THEN Some(CHOOSE u \in users : u.username = username)
  ELSE None

findById(id) ==
  IF \E u \in users : u.id = id
  THEN Some(Public(CHOOSE u \in users : u.id = id))
  ELSE None

\* a lookup by username that never compares the password
validateCredentialsNoCompare(loginData) ==
  findByUsername(loginData.username)

validateCredentials(loginData) ==
  LET user == findByUsername(loginData.username)
  IN  IF user = None THEN None
      ELSE IF BcryptCompare(loginData.password, user[1].password)
           THEN user ELSE None

existsByUsername(username) ==
  Cardinality({u \in users : u.username = username}) > 0

\* ------------------------------------------------------------ Token Authority
\* a payload built from a fresh id instead of the user's
generateJWTOtherId(userId, username) ==
  IF jwtSecret = None THEN None
  ELSE Some([userId |-> nextId, username |-> username,
             iat |-> NowSec, exp |-> NowSec + ExpiresIn,
             sig |-> jwtSecret[1]])

\* jwt.sign(payload, secret, { expiresIn: '24h' }); the signature is
\* represented by the key that made it.  None when JWT_SECRET is not set
\* (generateJWT throws).
\* an issuer that falls back to a built-in key when none is configured
generateJWTDefaultSecret(userId, username) ==
  Some([userId |-> userId, username |-> username,
        iat |-> NowSec, exp |-> NowSec + ExpiresIn,
        sig |-> IF jwtSecret = None THEN "s1" ELSE jwtSecret[1]])

generateJWT(userId, username) ==
  IF jwtSecret = None THEN None
  ELSE Some([userId |-> userId, username |-> username,
             iat |-> NowSec, exp |-> NowSec + ExpiresIn,
             sig |-> jwtSecret[1]])

\* a verification that reads the payload without checking who signed it
jwtVerifyUnsigned(cred, secret) ==
  /\ cred.kind = "jwt"
  /\ NowSec < cred.tok[1].exp

\* an expiry test that still accepts at the expiry second
jwtVerifyLate(cred, secret) ==
  /\ cred.kind = "jwt"
  /\ cred.tok[1].sig = secret
  /\ NowSec <= cred.tok[1].exp

\* jwt.verify(token, secret): TRUE when it returns the payload, FALSE when it
\* throws a JsonWebTokenError (malformed, bad signature, or
\* clockTimestamp >= exp)
jwtVerify(cred, secret) ==
  /\ cred.kind = "jwt"
  /\ cred.tok[1].sig = secret
  /\ NowSec < cred.tok[1].exp

\* ------------------------------------------------------------------ requests
\* An Authorization header "<scheme><spaces blanks><cred>"; cred is a token,
\* a text (base64 or anything else) or empty.
EmptyCred == [kind |-> "empty", tok |-> None, text |-> <<>>]
JwtCred(t) == [kind |-> "jwt", tok |-> Some(t), text |-> <<>>]
TextCred(s) == [kind |-> "text", tok |-> None, text |-> s]
Header(scheme, spaces, cred) ==
  Some([scheme |-> scheme, spaces |-> spaces, cred |-> cred])

\* a prefix test that accepts the scheme in any letter case
StartsWithAnyCase(header, scheme) ==
  /\ header # None
  /\ header[1].spaces >= 1
  /\ \/ header[1].scheme = scheme
     \/ {header[1].scheme, scheme} \subseteq {"Bearer", "bearer", "BEARER"}

\* authHeader?.startsWith(scheme + ' ')
StartsWith(header, scheme) ==
  /\ header # None
  /\ header[1].scheme = scheme
  /\ header[1].spaces >= 1

\* authHeader.split(' ')[1]
SecondWord(header) ==
  IF header[1].spaces = 1 THEN header[1].cred ELSE EmptyCred

\* truthiness of a string: non-empty
Truthy(cred) == ~(cred.kind = "empty" \/ (cred.kind = "text" /\ cred.text = <<>>))

Request(header, cookie, body) ==
  [header |-> header, cookie |-> cookie, body |-> body]

NoCreds == [username |-> NotAString, password |-> NotAString]

\* req.session?.user: the binding the session layer loaded for the cookie
SessionUser(req) ==
  IF req.cookie = None THEN None ELSE sessions[req.cookie[1]]

\* --------------------------------------------------------------- middleware
\* outcome of a middleware: next() called with req.user set, or a response
Continue(user) == [next |-> TRUE, user |-> user, res |-> None]
Reject(res) == [next |-> FALSE, user |-> None, res |-> Some(res)]

\* a verification that tells an expired token from the other failures
verifyJWTTellingExpiry(req) ==
  IF ~StartsWith(req.header, "Bearer")
  THEN Reject(ErrorJson(401, "Missing JWT token",
                        "Authorization header with Bearer token required"))
  ELSE LET token == SecondWord(req.header)
       IN  IF ~Truthy(token)
           THEN Reject(ErrorJson(401, "Invalid token format",
                                 "Bearer token is missing"))
           ELSE IF jwtSecret = None
           THEN Reject(ErrorJson(500, "Configuration error",
                                 "JWT secret not configured"))
           ELSE IF jwtVerify(token, jwtSecret[1])
           THEN Continue(Some([userId |-> token.tok[1].userId,
                               username |-> token.tok[1].username]))
           ELSE IF token.kind = "jwt" /\ token.tok[1].sig = jwtSecret[1]
           THEN Reject(ErrorJson(401, "Token expired", "JWT token has expired"))
           ELSE Reject(ErrorJson(401, "Invalid token",
                                 "JWT token is invalid or expired"))

\* a verification that also refuses tokens once a session was logged out
verifyJWTRevoking(req) ==
  IF ~StartsWith(req.header, "Bearer")
  THEN Reject(ErrorJson(401, "Missing JWT token",
                        "Authorization header with Bearer token required"))
  ELSE LET token == SecondWord(req.header)
       IN  IF ~Truthy(token)
           THEN Reject(ErrorJson(401, "Invalid token format",
                                 "Bearer token is missing"))
           ELSE IF jwtSecret = None
           THEN Reject(ErrorJson(500, "Configuration error",
                                 "JWT secret not configured"))
           ELSE IF jwtVerify(token, jwtSecret[1]) /\ loggedOut = {}
           THEN Continue(Some([userId |-> token.tok[1].userId,
                               username |-> token.tok[1].username]))
           ELSE Reject(ErrorJson(401, "Invalid token",
                                 "JWT token is invalid or expired"))

\* the catch branch for an error that is no JsonWebTokenError (500
\* 'Authentication error') is not reached: jwt.verify throws nothing else
verifyJWT(req) ==
  IF ~StartsWith(req.header, "Bearer")
  THEN Reject(ErrorJson(401, "Missing JWT token",
                        "Authorization header with Bearer token required"))
  ELSE LET token == SecondWord(req.header)
       IN  IF ~Truthy(token)
           THEN Reject(ErrorJson(401, "Invalid token format",
                                 "Bearer token is missing"))
           ELSE IF jwtSecret = None
           THEN Reject(ErrorJson(500, "Configuration error",
                                 "JWT secret not configured"))
           ELSE IF jwtVerify(token, jwtSecret[1])
           THEN Continue(Some([userId |-> token.tok[1].userId,
                               username |-> token.tok[1].username]))
           ELSE Reject(ErrorJson(401, "Invalid token",
                                 "JWT token is invalid or expired"))

\* a session check that also takes a bearer token
verifySessionOrBearer(req) ==
  IF StartsWith(req.header, "Bearer") THEN verifyJWT(req)
  ELSE LET sessionUser == SessionUser(req)
       IN  IF sessionUser = None
           THEN Reject(ErrorJson(401, "No active session",
                                 "Please login to access this resource"))
           ELSE Continue(Some([userId |-> sessionUser[1].id,
                               username |-> sessionUser[1].username]))

\* a session check that lets a request without a binding through
verifySessionOpen(req) ==
  LET sessionUser == SessionUser(req)
  IN  IF sessionUser = None
      THEN Continue(None)
      ELSE Continue(Some([userId |-> sessionUser[1].id,
                          username |-> sessionUser[1].username]))

verifySession(req) ==
  LET sessionUser == SessionUser(req)
  IN  IF sessionUser = None
      THEN Reject(ErrorJson(401, "No active session",
                            "Please login with session authentication"))
      ELSE Continue(Some([userId |-> sessionUser[1].id,
                          username |-> sessionUser[1].username]))

\* a resolver that falls back to the session when the token is refused
authenticateFallback(req) ==
  IF StartsWith(req.header, "Bearer") /\ verifyJWT(req).next
  THEN verifyJWT(req)
  ELSE IF SessionUser(req) # None THEN verifySession(req)
  ELSE IF StartsWith(req.header, "Bearer") THEN verifyJWT(req)
  ELSE Reject(ErrorJson(401, "Authentication required",
                        "Please provide JWT token or login with session"))

\* a resolver that lets a request without credentials through
authenticateAnonymous(req) ==
  IF StartsWith(req.header, "Bearer") THEN verifyJWT(req)
  ELSE IF SessionUser(req) # None THEN verifySession(req)
  ELSE Continue(None)

authenticate(req) ==
  IF StartsWith(req.header, "Bearer") THEN verifyJWT(req)
  ELSE IF SessionUser(req) # None THEN verifySession(req)
  ELSE Reject(ErrorJson(401, "Authentication required",
                        "Please provide JWT token or login with session"))

\* an optional resolver that treats a refused token as no credentials
optionalAuthForgiving(req) ==
  IF StartsWith(req.header, "Bearer") /\ verifyJWT(req).next THEN verifyJWT(req)
  ELSE IF SessionUser(req) # None THEN verifySession(req)
  ELSE Continue(None)

optionalAuth(req) ==
  IF StartsWith(req.header, "Bearer") THEN verifyJWT(req)
  ELSE IF SessionUser(req) # None THEN verifySession(req)
  ELSE Continue(None)

\* ---------------------------------------------------------- middleware calls
\* the calls a middleware makes on res and on next, in the order it makes
\* them: res.status(s).json(...) and next()
Sent(status) == <<[call |-> "json", status |-> status]>>
Called == <<[call |-> "next", status |-> 0]>>

\* verifyJWT: each branch of the try block that sends a response returns;
\* next() is the last statement of the try block; the catch block sends 401
\* for a JsonWebTokenError and returns
verifyJWTCalls(req) ==
  IF ~StartsWith(req.header, "Bearer") THEN Sent(401)
  ELSE IF ~Truthy(SecondWord(req.header)) THEN Sent(401)
  ELSE IF jwtSecret = None THEN Sent(500)
  ELSE IF jwtVerify(SecondWord(req.header), jwtSecret[1]) THEN Called
  ELSE Sent(401)

verifySessionCalls(req) ==
  IF SessionUser(req) = None THEN Sent(401) ELSE Called

\* a resolver that delegates without returning
authenticateCallsFallingThrough(req) ==
  (IF StartsWith(req.header, "Bearer") THEN verifyJWTCalls(req) ELSE <<>>)
    \o (IF SessionUser(req) # None THEN verifySessionCalls(req) ELSE <<>>)
    \o Sent(401)

\* authenticate: return verifyJWT(...), return verifySession(...), else 401
authenticateCalls(req) ==
  IF StartsWith(req.header, "Bearer") THEN verifyJWTCalls(req)
  ELSE IF SessionUser(req) # None THEN verifySessionCalls(req)
  ELSE Sent(401)

\* optionalAuth: return verifyJWT(...), return verifySession(...), else next()
optionalAuthCalls(req) ==
  IF StartsWith(req.header, "Bearer") THEN verifyJWTCalls(req)
  ELSE IF SessionUser(req) # None THEN verifySessionCalls(req)
  ELSE Called

\* --------------------------------------------------------------- controller
\* a decoder that lets an empty password through to the credential check
decodeBasicAuthLoose(header) ==
  LET base64Credentials == SecondWord(header)
  IN  IF ~Truthy(base64Credentials) THEN None
      ELSE LET credentials == ToAscii(Base64Decode(base64Credentials.text))
               parts == Split(credentials, COLON)
           IN  IF Len(parts) < 2 \/ parts[1] = <<>>
               THEN None
               ELSE Some([username |-> parts[1], password |-> parts[2]])

decodeBasicAuth(header) ==
  LET base64Credentials == SecondWord(header)
  IN  IF ~Truthy(base64Credentials) THEN None
      ELSE LET credentials == ToAscii(Base64Decode(base64Credentials.text))
               parts == Split(credentials, COLON)
           IN  IF Len(parts) < 2 \/ parts[1] = <<>> \/ parts[2] = <<>>
               THEN None
               ELSE Some([username |-> parts[1], password |-> parts[2]])

InvalidCredentials ==
  ErrorJson(401, "Invalid credentials", "Username or password is incorrect")

\* res.status(s).json({ message, user: { id, username, createdAt }, token })
Success(status, message, user, token) ==
  Response(status, [NoBody EXCEPT !.message = Some(message),
                                  !.user = Some(Public(user)),
                                  !.token = token], FALSE)

SecretError == PlainError("Error", "JWT_SECRET environment variable is not set")

\* a login that tells an unknown username from a wrong password
loginRevealing(req) ==
  LET parsed == SchemaParse(req.body)
  IN  IF ~parsed.ok THEN errorHandler(parsed.error)
      ELSE IF findByUsername(parsed.data.username) = None
      THEN ErrorJson(404, "User not found", "User profile does not exist")
      ELSE LET user == validateCredentials(parsed.data)
           IN  IF user = None THEN InvalidCredentials
               ELSE LET token == generateJWT(user[1].id, user[1].username)
                    IN  IF token = None THEN errorHandler(SecretError)
                        ELSE Success(200, "Login successful", user[1], token)

\* AuthController.login
login(req) ==
  LET parsed == SchemaParse(req.body)
  IN  IF ~parsed.ok THEN errorHandler(parsed.error)
      ELSE LET user == validateCredentials(parsed.data)
           IN  IF user = None THEN InvalidCredentials
               ELSE LET token == generateJWT(user[1].id, user[1].username)
                    IN  IF token = None THEN errorHandler(SecretError)
                        ELSE Success(200, "Login successful", user[1], token)

\* AuthController.basicAuthLogin
basicAuthLogin(req) ==
  IF ~StartsWith(req.header, "Basic")
  THEN ErrorJson(401, "Missing Basic Auth header",
                 "Authorization header with Basic authentication required")
  ELSE LET credentials == decodeBasicAuth(req.header)
       IN  IF credentials = None
           THEN ErrorJson(401, "Invalid Basic Auth format",
                          "Invalid Basic authentication credentials format")
           ELSE LET user == validateCredentials(credentials[1])
                IN  IF user = None THEN InvalidCredentials
                    ELSE LET token == generateJWT(user[1].id, user[1].username)
                         IN  IF token = None THEN errorHandler(SecretError)
                             ELSE Success(200, "Basic Auth login successful",
                                          user[1], token)

\* a session login that verifies the credentials before it looks at the
\* shape of the body
sessionLoginVerifyFirst(req) ==
  LET user == validateCredentials(req.body)
  IN  IF user = None THEN InvalidCredentials
      ELSE LET parsed == SchemaParse(req.body)
           IN  IF ~parsed.ok THEN errorHandler(parsed.error)
               ELSE Success(200, "Session login successful", user[1], None)

\* AuthController.sessionLogin: the response; on 200 the session is bound
sessionLogin(req) ==
  LET parsed == SchemaParse(req.body)
  IN  IF ~parsed.ok THEN errorHandler(parsed.error)
      ELSE LET user == validateCredentials(parsed.data)
           IN  IF user = None THEN InvalidCredentials
               ELSE Success(200, "Session login successful", user[1], None)

\* a logout that reports success whatever the store did
logoutSwallowing(destroyed) ==
  Response(200, [NoBody EXCEPT !.message = Some("Logout successful")], TRUE)

\* AuthController.logout: destroyed tells whether session.destroy succeeded
logout(destroyed) ==
  IF ~destroyed
  THEN ErrorJson(500, "Logout failed", "Could not clear session")
  ELSE Response(200, [NoBody EXCEPT !.message = Some("Logout successful")],
                TRUE)

\* a profile that answers from the identity without looking the user up
profileTrustingToken(req, reqUser) ==
  LET userId == IF reqUser # None THEN Some(reqUser[1].userId)
                ELSE IF SessionUser(req) # None
                     THEN Some(SessionUser(req)[1].id) ELSE None
  IN  IF userId = None
      THEN ErrorJson(401, "Not authenticated",
                     "User not found in request context")
      ELSE Response(200, [NoBody EXCEPT !.user =
                            Some([id |-> userId[1], username |-> <<>>,
                                  createdAt |-> 0])], FALSE)

\* AuthController.profile, reqUser being req.user
profile(req, reqUser) ==
  LET userId == IF reqUser # None THEN Some(reqUser[1].userId)
                ELSE IF SessionUser(req) # None
                     THEN Some(SessionUser(req)[1].id) ELSE None
  IN  IF userId = None
      THEN ErrorJson(401, "Not authenticated",
                     "User not found in request context")
      ELSE LET user == findById(userId[1])
           IN  IF user = None
               THEN ErrorJson(404, "User not found",
                              "User profile does not exist")
               ELSE Response(200, [NoBody EXCEPT !.user = user], FALSE)

\* a route "middleware, profile"
Guarded(mw, req) ==
  IF mw.next THEN profile(req, mw.user) ELSE mw.res[1]

\* ------------------------------------------------------------ request inputs
GarbageText == <<33, 33, 33>>     \* "!!!"

\* 'Basic ' + Buffer.from(username + ':' + password).toString('base64')
BasicHeader(username, password) ==
  Header("Basic", 1, TextCred(Base64Encode(username \o <<COLON>> \o password)))

\* a token as re-signed by someone who does not hold the server key
Forge(t) == [t EXCEPT !.sig = ForgedSecret]

Tokens == {i.tok : i \in issued}

BearerCreds ==
  {JwtCred(t) : t \in Tokens} \cup {JwtCred(Forge(t)) : t \in Tokens}
    \cup {TextCred(GarbageText), EmptyCred}

Bearer(t) == Header("Bearer", 1, JwtCred(t))

Headers ==
  {None} \cup {Header("Bearer", 1, c) : c \in BearerCreds}
         \cup {Header("Bearer", 2, JwtCred(t)) : t \in Tokens}
         \cup {Header("bearer", 1, JwtCred(t)) : t \in Tokens}
         \cup {BasicHeader(uAbc, pSecret)}

BasicHeaders ==
  {None, Header("Bearer", 1, TextCred(GarbageText)),
   Header("Basic", 1, EmptyCred),
   Header("Basic", 1, TextCred(Base64Encode(uAbc)))}
    \cup {BasicHeader(u, p) : u \in LoginUsernames \ {NotAString},
                              p \in LoginPasswords}

\* cookies carry ids the session layer has signed and handed out
Cookies == {None} \cup {Some(sid) : sid \in 1..(nextSid - 1)}

RegBodies == [username : RegUsernames, password : RegPasswords]
LoginBodies == [username : LoginUsernames, password : LoginPasswords]

\* bodies with a missing or too-short username or password
MalformedBodies ==
  [username : {uAbc, uShort, NotAString},
   password : {pSecret, pShort, NotAString}]
    \ {[username |-> uAbc, password |-> pSecret]}

\* ---------------------------------------------------------------- actions
Idle == [pc |-> "idle", data |-> [username |-> <<>>, password |-> <<>>]]

\* what a client sees of a response at once: who answered, the status and
\* whether the session cookie was cleared
Answered(op, res) ==
  [op |-> op, status |-> res.status, clearCookie |-> res.clearCookie]

Init ==
  /\ jwtSecret \in {None} \cup {Some(k) : k \in Secrets}
  /\ now = 0
  /\ ticks = 0
  /\ users = {}
  /\ nextId = 1
  /\ sessions = [sid \in SessionIds |-> None]
  /\ nextSid = 1
  /\ regs = [r \in Slots |-> Idle]
  /\ issued = {}
  /\ okLog = <<>>
  /\ loggedOut = {}
  /\ last = [op |-> "none", status |-> 0, clearCookie |-> FALSE]
  /\ events = {}
  /\ nextEventId = 1
  /\ server = "listening"
  /\ connections = 0
  /\ readyState = "connected"
  /\ shutdowns = <<>>
  /\ exitCode = None

\* the client keeps a token it was given, while it has room
Keep(res) ==
  IF res.body.token # None /\ Cardinality(issued) < MaxTokens
  THEN issued \cup {[tok |-> res.body.token[1], at |-> now,
                     user |-> res.body.user[1]]}
  ELSE issued

Pending == Cardinality({r \in Slots : regs[r].pc = "checked"})

\* time passes
Advance(d) ==
  /\ ticks < MaxTicks
  /\ now' = now + d
  /\ ticks' = ticks + 1
  /\ UNCHANGED << lifecycle, events, nextEventId, jwtSecret, users, nextId, sessions, nextSid, regs, issued,
                  okLog, loggedOut, last >>

UserExists ==
  ErrorJson(409, "User already exists", "Username is already taken")

\* AuthController.register up to the await of existsByUsername: None when
\* the request goes on to userModel.create, else the response
registerCheck(body) ==
  LET parsed == SchemaParse(body)
  IN  IF ~parsed.ok THEN Some(errorHandler(parsed.error))
      ELSE IF existsByUsername(parsed.data.username) THEN Some(UserExists)
      ELSE None

\* a request that arrives takes the first free slot
RegisterBegin(r, body) ==
  /\ regs[r].pc = "idle"
  /\ \A q \in Slots : q < r => regs[q].pc # "idle"
  /\ LET res == registerCheck(body)
     IN  IF res # None
         THEN /\ last' = Answered("register", res[1])
              /\ UNCHANGED regs
         ELSE /\ nextId + Pending <= MaxUsers
              /\ regs' = [regs EXCEPT ![r] = [pc |-> "checked",
                                              data |-> SchemaParse(body).data]]
              /\ UNCHANGED last
  /\ UNCHANGED << lifecycle, events, nextEventId, jwtSecret, now, ticks, users, nextId, sessions, nextSid,
                  issued, okLog, loggedOut >>

\* a collection without the unique index
DuplicateKeyNoIndex(username) == FALSE

\* the unique index on username: a second document with the same username
\* is refused by the insert
DuplicateKey(username) == \E u \in users : u.username = username

MongoError == PlainError("MongoServerError", "E11000 duplicate key error")

\* the document validation of the insert: username is required, and the
\* empty string does not satisfy required
RequiredMissing(username) == username = <<>>

MongooseError ==
  PlainError("ValidationError",
             "User validation failed: username is required")

\* an insert the collection refuses
Refused(data) == RequiredMissing(data.username) \/ DuplicateKey(data.username)

\* UserModel.create: the document built for the insert
UserToCreate(data) ==
  [id |-> nextId, username |-> data.username,
   password |-> BcryptHash(data.password, nextId), createdAt |-> now]

\* AuthController.register from userModel.create to the response
registerCreate(data) ==
  IF RequiredMissing(data.username) THEN errorHandler(MongooseError)
  ELSE IF DuplicateKey(data.username) THEN errorHandler(MongoError)
  ELSE LET newUser == UserToCreate(data)
           token == generateJWT(newUser.id, newUser.username)
       IN  IF token = None THEN errorHandler(SecretError)
           ELSE Success(201, "User registered successfully", newUser, token)

\* a create that replaces the stored user of the same username
RegisterCreateReplacing(r) ==
  /\ regs[r].pc = "checked"
  /\ LET data == regs[r].data
         res == registerCreate(data)
     IN  /\ users' = IF RequiredMissing(data.username) THEN users
                     ELSE {u \in users : u.username # data.username}
                            \cup {UserToCreate(data)}
         /\ last' = Answered("register", res)
         /\ issued' = Keep(res)
         /\ okLog' = IF res.status = 201
                     THEN Append(okLog, data.username) ELSE okLog
  /\ nextId' = nextId + 1
  /\ regs' = [regs EXCEPT ![r] = Idle]
  /\ UNCHANGED << lifecycle, events, nextEventId, jwtSecret, now, ticks, sessions, nextSid, loggedOut >>

RegisterCreate(r) ==
  /\ regs[r].pc = "checked"
  /\ LET data == regs[r].data
         res == registerCreate(data)
     IN  /\ users' = IF Refused(data) THEN users
                     ELSE users \cup {UserToCreate(data)}
         /\ last' = Answered("register", res)
         /\ issued' = Keep(res)
         /\ okLog' = IF res.status = 201
                     THEN Append(okLog, data.username) ELSE okLog
  /\ nextId' = nextId + 1
  /\ regs' = [regs EXCEPT ![r] = Idle]
  /\ UNCHANGED << lifecycle, events, nextEventId, jwtSecret, now, ticks, sessions, nextSid, loggedOut >>

\* POST /auth/login
Login(body) ==
  /\ LET res == login(Request(None, None, body))
     IN  /\ last' = Answered("login", res)
         /\ issued' = Keep(res)
  /\ UNCHANGED << lifecycle, events, nextEventId, jwtSecret, now, ticks, users, nextId, sessions, nextSid,
                  regs, okLog, loggedOut >>

\* POST /auth/basic
BasicAuthLogin(header) ==
  /\ LET res == basicAuthLogin(Request(header, None, NoCreds))
     IN  /\ last' = Answered("basic", res)
         /\ issued' = Keep(res)
  /\ UNCHANGED << lifecycle, events, nextEventId, jwtSecret, now, ticks, users, nextId, sessions, nextSid,
                  regs, okLog, loggedOut >>

\* the session the session layer attaches to a request: the stored one of
\* the cookie, else a new one with a fresh id
SessionIdOf(cookie) ==
  IF cookie # None /\ sessions[cookie[1]] # None THEN cookie[1] ELSE nextSid

\* a session login that keeps the binding a session already has
SessionLoginKeepingFirst(cookie, body) ==
  /\ LET res == sessionLogin(Request(None, cookie, body))
         sid == SessionIdOf(cookie)
     IN  /\ last' = Answered("sessionLogin", res)
         /\ IF res.status = 200
            THEN /\ sid \in SessionIds
                 /\ sessions' = IF sessions[sid] # None THEN sessions
                                ELSE [sessions EXCEPT ![sid] =
                                        Some([id |-> res.body.user[1].id,
                                              username |-> res.body.user[1].username])]
                 /\ nextSid' = IF sid = nextSid THEN nextSid + 1 ELSE nextSid
                 /\ loggedOut' = loggedOut \ {sid}
            ELSE UNCHANGED << sessions, nextSid, loggedOut >>
  /\ UNCHANGED << lifecycle, events, nextEventId, jwtSecret, now, ticks, users, nextId, regs, issued, okLog >>

\* a session login that drops the binding of the session when it fails
SessionLoginUnbindingOnFailure(cookie, body) ==
  /\ LET res == sessionLogin(Request(None, cookie, body))
         sid == SessionIdOf(cookie)
     IN  /\ last' = Answered("sessionLogin", res)
         /\ IF res.status = 200
            THEN /\ sid \in SessionIds
                 /\ sessions' = [sessions EXCEPT ![sid] =
                                   Some([id |-> res.body.user[1].id,
                                         username |-> res.body.user[1].username])]
                 /\ nextSid' = IF sid = nextSid THEN nextSid + 1 ELSE nextSid
                 /\ loggedOut' = loggedOut \ {sid}
            ELSE /\ sessions' = IF sid \in SessionIds
                                THEN [sessions EXCEPT ![sid] = None]
                                ELSE sessions
                 /\ UNCHANGED << nextSid, loggedOut >>
  /\ UNCHANGED << lifecycle, events, nextEventId, jwtSecret, now, ticks, users, nextId, regs, issued, okLog >>

\* POST /auth/session/login: req.session.user = { id, username }, saved by
\* the session layer at the end of the request together with the cookie
SessionLogin(cookie, body) ==
  /\ LET res == sessionLogin(Request(None, cookie, body))
         sid == SessionIdOf(cookie)
     IN  /\ last' = Answered("sessionLogin", res)
         /\ IF res.status = 200
            THEN /\ sid \in SessionIds
                 /\ sessions' = [sessions EXCEPT ![sid] =
                                   Some([id |-> res.body.user[1].id,
                                         username |-> res.body.user[1].username])]
                 /\ nextSid' = IF sid = nextSid THEN nextSid + 1 ELSE nextSid
                 /\ loggedOut' = loggedOut \ {sid}
            ELSE UNCHANGED << sessions, nextSid, loggedOut >>
  /\ UNCHANGED << lifecycle, events, nextEventId, jwtSecret, now, ticks, users, nextId, regs, issued, okLog >>

\* a logout that refuses a request without a bound session
LogoutNeedingSession(cookie, destroyed) ==
  /\ LET bound == cookie # None /\ sessions[cookie[1]] # None
         res == IF bound THEN logout(destroyed)
                ELSE ErrorJson(401, "No active session", "Nothing to log out")
     IN  /\ last' = Answered("logout", res)
         /\ sessions' = IF destroyed /\ bound
                        THEN [sessions EXCEPT ![cookie[1]] = None] ELSE sessions
         /\ loggedOut' = IF res.status = 200
                         THEN loggedOut \cup {cookie[1]} ELSE loggedOut
  /\ UNCHANGED << lifecycle, events, nextEventId, jwtSecret, now, ticks, users, nextId, nextSid, regs,
                  issued, okLog >>

\* a logout that answers without deleting the stored session
LogoutKeepingSession(cookie, destroyed) ==
  /\ last' = Answered("logout", logout(destroyed))
  /\ loggedOut' = IF destroyed /\ cookie # None
                  THEN loggedOut \cup {cookie[1]} ELSE loggedOut
  /\ UNCHANGED << lifecycle, events, nextEventId, jwtSecret, now, ticks, users, nextId, sessions, nextSid,
                  regs, issued, okLog >>

\* POST /auth/logout: req.session.destroy asks the store to delete the
\* session; the store may fail
Logout(cookie, destroyed) ==
  /\ LET res == logout(destroyed)
         sid == SessionIdOf(cookie)
     IN  /\ last' = Answered("logout", res)
         /\ sessions' = IF destroyed /\ sid \in SessionIds
                        THEN [sessions EXCEPT ![sid] = None] ELSE sessions
         /\ loggedOut' = IF res.status = 200 /\ cookie # None
                         THEN loggedOut \cup {cookie[1]} ELSE loggedOut
  /\ UNCHANGED << lifecycle, events, nextEventId, jwtSecret, now, ticks, users, nextId, nextSid, regs,
                  issued, okLog >>

ReadOnly(op, res) ==
  /\ last' = Answered(op, res)
  /\ UNCHANGED << lifecycle, events, nextEventId, jwtSecret, now, ticks, users, nextId, sessions, nextSid,
                  regs, issued, okLog, loggedOut >>

\* GET /auth/profile
GetProfile(header, cookie) ==
  LET req == Request(header, cookie, NoCreds)
  IN  ReadOnly("profile", Guarded(verifyJWT(req), req))

\* GET /auth/session/profile
GetSessionProfile(header, cookie) ==
  LET req == Request(header, cookie, NoCreds)
  IN  ReadOnly("sessionProfile", Guarded(verifySession(req), req))

\* GET /auth/me
GetMe(header, cookie) ==
  LET req == Request(header, cookie, NoCreds)
  IN  ReadOnly("me", Guarded(authenticate(req), req))

\* optionalAuth run on a request; it guards no route, so nothing follows its
\* next(): status 0 stands for a continuation without a response
OptionalAuth(header, cookie) ==
  LET out == optionalAuth(Request(header, cookie, NoCreds))
  IN  /\ last' = [op |-> "optionalAuth",
                  status |-> IF out.next THEN 0 ELSE out.res[1].status,
                  clearCookie |-> FALSE]
      /\ UNCHANGED << lifecycle, events, nextEventId, jwtSecret, now, ticks, users, nextId, sessions, nextSid,
                      regs, issued, okLog, loggedOut >>

\* ------------------------------------------------------------------ events
\* An event document: id, nombre, cantidad (in hundredths), fecha (in days
\* from the start of the server), tipo, and the optional descripcion and
\* adjunto.  A request body gives each field or leaves it out, and can
\* hold an id of the client's choosing.
NoFields ==
  [id |-> None, nombre |-> None, descripcion |-> None, cantidad |-> None,
   fecha |-> None, tipo |-> None, adjunto |-> None]

Tipos == {"ingreso", "egreso"}
Urls == {"https://example.com/a.pdf"}    \* the strings that are URLs

\* the issues of CreateEventSchema.partial(): a field that is given must be
\* well-formed
GivenIssues(body) ==
  (IF body.nombre # None /\ (Len(body.nombre[1]) < NombreMin
                             \/ Len(body.nombre[1]) > NombreMax)
   THEN {"nombre"} ELSE {})
    \cup (IF body.descripcion # None /\ Len(body.descripcion[1]) > DescripcionMax
          THEN {"descripcion"} ELSE {})
    \cup (IF body.cantidad # None
               /\ (body.cantidad[1] < CantidadMin
                   \/ body.cantidad[1] \div 100 > CantidadMax
                   \/ (body.cantidad[1] \div 100 = CantidadMax
                       /\ body.cantidad[1] % 100 > 0))
          THEN {"cantidad"} ELSE {})
    \cup (IF body.fecha # None /\ (body.fecha[1] < FechaMin
                                   \/ body.fecha[1] > FechaMax)
          THEN {"fecha"} ELSE {})
    \cup (IF body.tipo # None /\ body.tipo[1] \notin Tipos
          THEN {"tipo"} ELSE {})
    \cup (IF body.adjunto # None /\ body.adjunto[1] \notin Urls
          THEN {"adjunto"} ELSE {})

\* a parse that keeps the keys the schema does not have
StripNothing(body) == body

\* z.object() drops the keys that are not in the schema from the parsed
\* data: CreateEventSchema is EventSchema.omit({ id: true })
Strip(body) == [body EXCEPT !.id = None]

\* UpdateEventSchema.parse
UpdateEventParse(body) ==
  LET paths == GivenIssues(body)
  IN  [ok |-> paths = {}, error |-> ZodError(paths), data |-> Strip(body)]

\* CreateEventSchema.parse: nombre, cantidad, fecha and tipo are required
CreateEventParse(body) ==
  LET paths == GivenIssues(body)
                 \cup {f \in {"nombre", "cantidad", "fecha", "tipo"} :
                         body[f] = None}
  IN  [ok |-> paths = {}, error |-> ZodError(paths), data |-> Strip(body)]

\* EventQuerySchema.parse: page and limit have defaults, tipo is optional
EventQueryParse(query) ==
  LET paths == (IF query.tipo # None /\ query.tipo[1] \notin Tipos
                THEN {"tipo"} ELSE {})
                 \cup (IF query.page # None /\ query.page[1] < 1
                       THEN {"page"} ELSE {})
                 \cup (IF query.limit # None /\ (query.limit[1] < 1
                                                 \/ query.limit[1] > LimitMax)
                       THEN {"limit"} ELSE {})
  IN  [ok |-> paths = {}, error |-> ZodError(paths), data |-> query]

\* EventModel.create: the document built for the insert, { id: uuidv4(),
\* ...eventData }
EventToCreate(data) ==
  [id |-> IF data.id # None THEN data.id[1] ELSE nextEventId,
   nombre |-> data.nombre[1],
   descripcion |-> data.descripcion, cantidad |-> data.cantidad[1],
   fecha |-> data.fecha[1], tipo |-> data.tipo[1], adjunto |-> data.adjunto]

\* EventModel.findById
eventFindById(id) ==
  IF \E e \in events : e.id = id
  THEN Some(CHOOSE e \in events : e.id = id) ELSE None

\* { $set: updateData }: the fields given replace the stored ones
SetFields(e, data) ==
  [id |-> IF data.id # None THEN data.id[1] ELSE e.id,
   nombre |-> IF data.nombre # None THEN data.nombre[1] ELSE e.nombre,
   descripcion |-> IF data.descripcion # None THEN data.descripcion
                   ELSE e.descripcion,
   cantidad |-> IF data.cantidad # None THEN data.cantidad[1] ELSE e.cantidad,
   fecha |-> IF data.fecha # None THEN data.fecha[1] ELSE e.fecha,
   tipo |-> IF data.tipo # None THEN data.tipo[1] ELSE e.tipo,
   adjunto |-> IF data.adjunto # None THEN data.adjunto ELSE e.adjunto]

\* EventModel.update: the document after findOneAndUpdate, None when no
\* document has the id
eventUpdate(id, data) ==
  IF eventFindById(id) = None THEN None
  ELSE Some(SetFields(eventFindById(id)[1], data))

\* the collection after EventModel.update
EventsAfterUpdate(id, data) ==
  IF eventFindById(id) = None THEN events
  ELSE (events \ {eventFindById(id)[1]}) \cup {eventUpdate(id, data)[1]}

\* EventModel.delete: deletedCount > 0
eventDelete(id) == eventFindById(id) # None

\* the collection after EventModel.delete
EventsAfterDelete(id) == {e \in events : e.id # id}

\* a listing whose first page starts after the first limit documents
PagePositionsFromOne(total, page, limit) ==
  {p \in (page * limit)..(page * limit + limit - 1) : p < total}

\* find(filter).skip(offset).limit(limit) on a filtered collection of total
\* documents: the positions (from 0) of the documents returned, with
\* offset = Math.min((page - 1) * limit, 1000000)
PagePositions(total, page, limit) ==
  LET offset == IF (page - 1) * limit < OffsetMax
                THEN (page - 1) * limit ELSE OffsetMax
      end == IF offset + limit < total THEN offset + limit ELSE total
  IN  offset..(end - 1)

\* EventModel.findAll: filter by tipo, skip and limit in insertion order,
\* and the count of the filter
eventFindAll(query) ==
  LET page == IF query.page = None THEN PageDefault ELSE query.page[1]
      limit == IF query.limit = None THEN LimitDefault ELSE query.limit[1]
      filtered == IF query.tipo = None THEN events
                  ELSE {e \in events : e.tipo = query.tipo[1]}
      Rank(e) == Cardinality({f \in filtered : f.id <= e.id})
      total == Cardinality(filtered)
  IN  [data |-> {e \in filtered :
                   Rank(e) - 1 \in PagePositions(total, page, limit)},
       total |-> total, page |-> page, limit |-> limit,
       totalPages |-> (total + limit - 1) \div limit]

\* toIsoString of a Date
toIsoString(fecha) == [iso |-> fecha]

\* renderEvent
renderEvent(e) == [e EXCEPT !.fecha = toIsoString(e.fecha)]

\* renderEventCollection
renderEventCollection(result) ==
  [result EXCEPT !.data = {renderEvent(e) : e \in result.data}]

\* new NotFoundError('Event')
NotFoundError ==
  [kind |-> "NotFoundError", paths |-> {}, statusCode |-> 404,
   message |-> "Event not found"]

\* EventController.createEvent
createEvent(body) ==
  LET parsed == CreateEventParse(body)
  IN  IF ~parsed.ok THEN errorHandler(parsed.error)
      ELSE Response(201, [NoBody EXCEPT !.event =
                            Some(renderEvent(EventToCreate(parsed.data)))],
                    FALSE)

\* EventController.getAllEvents
getAllEvents(query) ==
  LET parsed == EventQueryParse(query)
  IN  IF ~parsed.ok THEN errorHandler(parsed.error)
      ELSE Response(200, [NoBody EXCEPT !.page =
                            Some(renderEventCollection(eventFindAll(parsed.data)))],
                    FALSE)

\* EventController.getEventById
getEventById(id) ==
  LET event == eventFindById(id)
  IN  IF event = None THEN errorHandler(NotFoundError)
      ELSE Response(200, [NoBody EXCEPT !.event = Some(renderEvent(event[1]))],
                    FALSE)

\* EventController.updateEvent
updateEvent(id, body) ==
  LET parsed == UpdateEventParse(body)
  IN  IF ~parsed.ok THEN errorHandler(parsed.error)
      ELSE LET event == eventUpdate(id, parsed.data)
           IN  IF event = None THEN errorHandler(NotFoundError)
               ELSE Response(200, [NoBody EXCEPT !.event =
                                     Some(renderEvent(event[1]))], FALSE)

\* a delete that answers 204 whether or not a document was deleted
deleteEventSilent(id) == Response(204, NoBody, FALSE)

\* EventController.deleteEvent
deleteEvent(id) ==
  IF ~eventDelete(id) THEN errorHandler(NotFoundError)
  ELSE Response(204, NoBody, FALSE)

\* a route without a guard in front of the handler
ProtectedOpen(req, res) == res

\* a route "authenticate, handler": the handler runs when authenticate
\* calls next()
Protected(req, res) ==
  IF authenticate(req).next THEN res ELSE authenticate(req).res[1]

\* ------------------------------------------------------- event requests
evSalary ==
  [NoFields EXCEPT !.nombre = Some("Salary"), !.cantidad = Some(500000),
                   !.fecha = Some(0), !.tipo = Some("ingreso")]
evRent ==
  [NoFields EXCEPT !.nombre = Some("Rent"), !.descripcion = Some("flat"),
                   !.cantidad = Some(120000), !.fecha = Some(30),
                   !.tipo = Some("egreso")]
evFree == [evSalary EXCEPT !.cantidad = Some(0)]       \* cantidad below 0.01
evNameless == [evRent EXCEPT !.nombre = None]          \* nombre missing

evWithId == [evSalary EXCEPT !.id = Some(1)]           \* an id in the body

CreateBodies == {evSalary, evRent, evFree, evNameless, evWithId}

upCantidad == [NoFields EXCEPT !.cantidad = Some(600000)]
upTipo == [NoFields EXCEPT !.tipo = Some("otro")]      \* not in the enum

upId == [upCantidad EXCEPT !.id = Some(1)]             \* an id in the body

UpdateBodies == {upCantidad, NoFields, upTipo, upId}

NoQuery == [tipo |-> None, page |-> None, limit |-> None]
Queries ==
  {NoQuery, [NoQuery EXCEPT !.tipo = Some("ingreso")],
   [NoQuery EXCEPT !.page = Some(2), !.limit = Some(1)],
   [NoQuery EXCEPT !.tipo = Some("otro")]}

\* ids a client asks for: those handed out and one that never was
AskedIds == 1..nextEventId

\* credentials of the event requests: none, a held token, garbage, a cookie
EventCreds ==
  {<<None, None>>, <<Header("Bearer", 1, TextCred(GarbageText)), None>>}
    \cup {<<Bearer(t), None>> : t \in Tokens}
    \cup {<<None, c>> : c \in Cookies \ {None}}

\* ---------------------------------------------------------- event actions
EventStep(op, res) ==
  /\ last' = Answered(op, res)
  /\ UNCHANGED << lifecycle, jwtSecret, now, ticks, users, nextId, sessions,
                  nextSid, regs, issued, okLog, loggedOut >>

\* the collection after POST /eventos: the handler inserts when authenticate
\* lets the request through and the body passes the schema
StoreAfterCreate(req, body) ==
  IF authenticate(req).next /\ CreateEventParse(body).ok
  THEN events \cup {EventToCreate(CreateEventParse(body).data)}
  ELSE events

\* the collection after PUT /eventos/:id
StoreAfterUpdate(req, id, body) ==
  IF authenticate(req).next /\ UpdateEventParse(body).ok
  THEN EventsAfterUpdate(id, UpdateEventParse(body).data)
  ELSE events

\* the collection after DELETE /eventos/:id
StoreAfterDelete(req, id) ==
  IF authenticate(req).next THEN EventsAfterDelete(id) ELSE events

\* POST /eventos
CreateEvent(header, cookie, body) ==
  LET req == Request(header, cookie, NoCreds)
      created == authenticate(req).next /\ CreateEventParse(body).ok
  IN  /\ created => nextEventId <= MaxEvents
      /\ events' = StoreAfterCreate(req, body)
      /\ nextEventId' = IF created THEN nextEventId + 1 ELSE nextEventId
      /\ EventStep("createEvent", Protected(req, createEvent(body)))

\* GET /eventos
GetAllEvents(header, cookie, query) ==
  LET req == Request(header, cookie, NoCreds)
  IN  /\ UNCHANGED << events, nextEventId >>
      /\ EventStep("getAllEvents", Protected(req, getAllEvents(query)))

\* GET /eventos/:id
GetEventById(header, cookie, id) ==
  LET req == Request(header, cookie, NoCreds)
  IN  /\ UNCHANGED << events, nextEventId >>
      /\ EventStep("getEventById", Protected(req, getEventById(id)))

\* PUT /eventos/:id
UpdateEvent(header, cookie, id, body) ==
  LET req == Request(header, cookie, NoCreds)
  IN  /\ events' = StoreAfterUpdate(req, id, body)
      /\ UNCHANGED nextEventId
      /\ EventStep("updateEvent", Protected(req, updateEvent(id, body)))

\* DELETE /eventos/:id
DeleteEvent(header, cookie, id) ==
  LET req == Request(header, cookie, NoCreds)
  IN  /\ events' = StoreAfterDelete(req, id)
      /\ UNCHANGED nextEventId
      /\ EventStep("deleteEvent", Protected(req, deleteEvent(id)))

\* every entry point, at one instant; /auth/profile is sent without a cookie
\* and /auth/session/profile without a header, which they do not read
Next ==
  \/ \E r \in Slots, body \in RegBodies : RegisterBegin(r, body)
  \/ \E r \in Slots : RegisterCreate(r)
  \/ \E body \in LoginBodies : Login(body)
  \/ \E header \in BasicHeaders : BasicAuthLogin(header)
  \/ \E cookie \in Cookies, body \in LoginBodies : SessionLogin(cookie, body)
  \/ \E cookie \in Cookies, destroyed \in BOOLEAN : Logout(cookie, destroyed)
  \/ \E header \in Headers : GetProfile(header, None)
  \/ \E cookie \in Cookies : GetSessionProfile(None, cookie)
  \/ \E header \in Headers, cookie \in Cookies : GetMe(header, cookie)

Spec == Init /\ [][Next]_vars

\* one registration at a time, the clock running
ClockBodies ==
  {[username |-> uAbc, password |-> pSecret],
   [username |-> uXyz, password |-> pColon]}

NextClock ==
  \/ \E d \in Deltas : Advance(d)
  \/ \E body \in ClockBodies : RegisterBegin(1, body)
  \/ RegisterCreate(1)
  \/ \E body \in ClockBodies : Login(body)
  \/ \E body \in ClockBodies : BasicAuthLogin(BasicHeader(body.username,
                                                          body.password))
  \/ \E cookie \in Cookies, body \in ClockBodies : SessionLogin(cookie, body)
  \/ \E cookie \in Cookies, destroyed \in BOOLEAN : Logout(cookie, destroyed)
  \/ \E header \in Headers, cookie \in Cookies : GetProfile(header, cookie)
  \/ \E header \in Headers, cookie \in Cookies : GetMe(header, cookie)
  \/ \E header \in Headers, cookie \in Cookies : OptionalAuth(header, cookie)

SpecClock == Init /\ [][NextClock]_vars

\* one request at a time, the clock standing still: every auth route with
\* every body, header and cookie
NextSeq ==
  \/ \E body \in RegBodies \cup MalformedBodies : RegisterBegin(1, body)
  \/ RegisterCreate(1)
  \/ \E body \in LoginBodies \cup MalformedBodies : Login(body)
  \/ \E header \in BasicHeaders : BasicAuthLogin(header)
  \/ \E cookie \in Cookies, body \in LoginBodies \cup MalformedBodies :
       SessionLogin(cookie, body)
  \/ \E cookie \in Cookies, destroyed \in BOOLEAN : Logout(cookie, destroyed)
  \/ \E header \in Headers, cookie \in Cookies : GetProfile(header, cookie)
  \/ \E header \in Headers, cookie \in Cookies :
       GetSessionProfile(header, cookie)
  \/ \E header \in Headers, cookie \in Cookies : GetMe(header, cookie)

SpecSeq == Init /\ [][NextSeq]_vars

\* registrations and logins with usernames that carry blanks
NameUsernames == {uAbc, uPadded, uThin, uBlank, uShort}
NameBodies == [username : NameUsernames, password : {pSecret}]

NextNames ==
  \/ \E r \in Slots, body \in NameBodies : RegisterBegin(r, body)
  \/ \E r \in Slots : RegisterCreate(r)
  \/ \E body \in NameBodies : Login(body)

SpecNames == Init /\ [][NextNames]_vars

\* the one user of the specifications about events and about shutdown
EventUser == [username |-> uAbc, password |-> pSecret]

\* ---------------------------------------------------------------- lifecycle
\* what shutdown leaves alone
application == << jwtSecret, now, ticks, users, nextId, sessions, nextSid,
                 regs, issued, okLog, loggedOut, last, events, nextEventId >>

\* shutdown from `await disconnectMongo()` on, closeServer having resolved:
\* disconnectMongo returns at once when the connection is closed, and
\* process.exit(0) follows; else it awaits mongoose.disconnect()
disconnectMongo(state) ==
  IF state = "disconnected"
  THEN [pc |-> "exited", readyState |-> state, exitCode |-> Some(0)]
  ELSE [pc |-> "disconnectMongo", readyState |-> "disconnecting",
        exitCode |-> None]

\* the 'close' event of the server: the callback registered while the server
\* had its handle is called without an error and its shutdown goes on; a
\* callback registered later is called with ERR_SERVER_NOT_RUNNING, the
\* promise of closeServer rejects and with it the promise of shutdown, which
\* nothing handles (`void shutdown()`): the process ends with code 1
EmitClose(pcs) ==
  LET resolved == {i \in DOMAIN pcs : pcs[i] = "closeServer"}
      refused == {i \in DOMAIN pcs : pcs[i] = "closeServerRefused"}
      resumed == disconnectMongo(readyState)
  IN  [shutdowns |-> [i \in DOMAIN pcs |->
                        IF i \in resolved THEN resumed.pc
                        ELSE IF i \in refused THEN "rejected" ELSE pcs[i]],
       readyState |-> IF resolved # {} THEN resumed.readyState
                      ELSE readyState,
       exitCode |-> IF resolved # {} /\ resumed.exitCode # None
                    THEN resumed.exitCode
                    ELSE IF refused # {} THEN Some(1) ELSE None]

\* a client connects
Accept ==
  /\ exitCode = None
  /\ server = "listening"
  /\ connections < MaxConnections
  /\ connections' = connections + 1
  /\ UNCHANGED << server, readyState, shutdowns, exitCode >>
  /\ UNCHANGED application

\* a connection ends; the last one of a closing server lets it close
ConnectionEnd ==
  /\ exitCode = None
  /\ connections > 0
  /\ connections' = connections - 1
  /\ IF server = "closing" /\ connections = 1
     THEN /\ server' = "closed"
          /\ shutdowns' = EmitClose(shutdowns).shutdowns
          /\ readyState' = EmitClose(shutdowns).readyState
          /\ exitCode' = EmitClose(shutdowns).exitCode
     ELSE UNCHANGED << server, readyState, shutdowns, exitCode >>
  /\ UNCHANGED application

\* SIGINT or SIGTERM: shutdown() runs up to `await closeServer()`.
\* server.close(cb) closes the handle of a listening server and registers
\* cb for 'close'; without a handle it registers cb to be called with
\* ERR_SERVER_NOT_RUNNING; 'close' is emitted on the next tick when no
\* connection is open, else when the last one ends
Signal ==
  /\ exitCode = None
  /\ Len(shutdowns) < MaxSignals
  /\ LET pcs == Append(shutdowns, IF server = "listening" THEN "closeServer"
                                  ELSE "closeServerRefused")
     IN  IF connections > 0
         THEN /\ server' = "closing"
              /\ shutdowns' = pcs
              /\ UNCHANGED << readyState, exitCode >>
         ELSE /\ server' = "closed"
              /\ shutdowns' = EmitClose(pcs).shutdowns
              /\ readyState' = EmitClose(pcs).readyState
              /\ exitCode' = EmitClose(pcs).exitCode
  /\ UNCHANGED connections
  /\ UNCHANGED application

\* mongoose.disconnect() resolves: the shutdown that awaits it calls
\* process.exit(0)
Disconnected ==
  /\ exitCode = None
  /\ readyState = "disconnecting"
  /\ readyState' = "disconnected"
  /\ shutdowns' = [i \in DOMAIN shutdowns |->
                     IF shutdowns[i] = "disconnectMongo" THEN "exited"
                     ELSE shutdowns[i]]
  /\ exitCode' = IF \E i \in DOMAIN shutdowns : shutdowns[i] = "disconnectMongo"
                 THEN Some(0) ELSE None
  /\ UNCHANGED << server, connections >>
  /\ UNCHANGED application

\* a request in flight on an open connection of the running process
Serving == exitCode = None /\ connections > 0

\* the process from startup to exit: clients connect, register, log in and
\* leave, termination signals arrive
NextShutdown ==
  \/ Accept
  \/ ConnectionEnd
  \/ Signal
  \/ Disconnected
  \/ \E body \in ClockBodies : Serving /\ RegisterBegin(1, body)
  \/ Serving /\ RegisterCreate(1)
  \/ \E body \in ClockBodies : Serving /\ Login(body)

SpecShutdown == Init /\ [][NextShutdown]_vars

\* the event routes, with one user who registers, logs in by session and
\* logs out

NextEvents ==
  \/ RegisterBegin(1, EventUser)
  \/ RegisterCreate(1)
  \/ \E cookie \in Cookies : SessionLogin(cookie, EventUser)
  \/ \E cookie \in Cookies : Logout(cookie, TRUE)
  \/ \E cred \in EventCreds, body \in CreateBodies :
       CreateEvent(cred[1], cred[2], body)
  \/ \E cred \in EventCreds, query \in Queries :
       GetAllEvents(cred[1], cred[2], query)
  \/ \E cred \in EventCreds, id \in AskedIds :
       GetEventById(cred[1], cred[2], id)
  \/ \E cred \in EventCreds, id \in AskedIds, body \in UpdateBodies :
       UpdateEvent(cred[1], cred[2], id, body)
  \/ \E cred \in EventCreds, id \in AskedIds :
       DeleteEvent(cred[1], cred[2], id)

SpecEvents == Init /\ [][NextEvents]_vars

\* ------------------------------------------------------------------ claims
\* the identity a token stands for
IdentityOf(t) == Some([userId |-> t.userId, username |-> t.username])

\* a presented credential is a token the configured secret signed, unexpired
TokenValid(cred) ==
  /\ cred.kind = "jwt"
  /\ jwtSecret # None
  /\ cred.tok[1].sig = jwtSecret[1]
  /\ NowSec < cred.tok[1].exp

BearerHeaders == {h \in Headers : StartsWith(h, "Bearer")}

C2_OneUserPerUsername ==
  /\ \A u1, u2 \in users : u1.username = u2.username => u1 = u2
  /\ \A i, j \in 1..Len(okLog) : okLog[i] = okLog[j] => i = j

\* two registrations of one username raced: one was answered 201, the other
\* was refused by the insert
C2_Witness ==
  /\ jwtSecret # None
  /\ last.op = "register"
  /\ last.status = 500
  /\ Len(okLog) = 1
  /\ Cardinality(users) = 1

\* C3 as claimed: a registration whose username is already stored, be it
\* found by the existence check or only by the insert, is answered 409.
C3_ConflictIs409 ==
  /\ \A body \in RegBodies :
       (SchemaParse(body).ok
          /\ existsByUsername(SchemaParse(body).data.username))
       => registerCheck(body) = Some(UserExists)
  /\ \A r \in Slots :
       (regs[r].pc = "checked" /\ existsByUsername(regs[r].data.username))
       => registerCreate(regs[r].data).status = 409

\* C4: a session whose logout was answered 200 is refused with 401 by the
\* session-authenticated endpoints, whatever else the request carries, for
\* as long as no session login has bound it again.
C4_LoggedOutIs401 ==
  \A sid \in loggedOut, h \in Headers :
    LET req == Request(h, Some(sid), NoCreds)
    IN  /\ Guarded(verifySession(req), req).status = 401
        /\ ~StartsWith(h, "Bearer") => Guarded(authenticate(req), req).status = 401

\* a session was bound, logged out with 200, and its cookie then refused
C4_Witness ==
  /\ loggedOut # {}
  /\ last.op = "sessionProfile"
  /\ last.status = 401

\* C5 as claimed: every answer of logout clears the session cookie.
C5_LogoutClearsCookie ==
  last.op = "logout" => last.clearCookie

\* shape-valid login bodies naming a stored user with a wrong password, and
\* naming no stored user
WrongPassword ==
  {b \in LoginBodies :
     /\ SchemaParse(b).ok
     /\ findByUsername(SchemaParse(b).data.username) # None
     /\ validateCredentials(SchemaParse(b).data) = None}
UnknownUser ==
  {b \in LoginBodies :
     /\ SchemaParse(b).ok
     /\ findByUsername(SchemaParse(b).data.username) = None}

\* the same for Basic: each pair with the request that carries it and the
\* credentials the server decodes from that request
BasicOf(b) == BasicHeader(b.username, b.password)
BasicCases ==
  {[request |-> Request(BasicOf(b), None, NoCreds),
    creds |-> decodeBasicAuth(BasicOf(b))] :
     b \in {x \in LoginBodies : x.username # NotAString}}
BasicWrongPassword ==
  {c \in BasicCases :
     /\ c.creds # None
     /\ findByUsername(c.creds[1].username) # None
     /\ validateCredentials(c.creds[1]) = None}
BasicUnknownUser ==
  {c \in BasicCases :
     /\ c.creds # None
     /\ findByUsername(c.creds[1].username) = None}

\* C6: a login for a stored username with a wrong password and a login for a
\* username that is not stored get one and the same response, the 401
\* 'Invalid credentials' with the same error and message, on the JSON, the
\* session and the Basic entry points.
C6_NoUsernameOracle ==
  /\ \A b \in WrongPassword \cup UnknownUser :
       /\ login(Request(None, None, b)) = InvalidCredentials
       /\ sessionLogin(Request(None, None, b)) = InvalidCredentials
  /\ \A c \in BasicWrongPassword \cup BasicUnknownUser :
       basicAuthLogin(c.request) = InvalidCredentials

\* a login was refused while one username is stored and another is not
C6_Witness ==
  /\ last.op \in {"login", "basic", "sessionLogin"}
  /\ last.status = 401
  /\ WrongPassword # {}
  /\ UnknownUser # {}
  /\ BasicWrongPassword # {}
  /\ BasicUnknownUser # {}

\* C7 as claimed, for shape-valid pairs and a configured secret: Basic login
\* with base64(username:password) succeeds exactly when JSON login with the
\* pair does, with the same user and token, and is answered 'Invalid
\* credentials' otherwise.
C7_BasicSameAsJson ==
  jwtSecret # None =>
    \A b \in LoginBodies :
      SchemaParse(b).ok =>
        LET j == login(Request(None, None, b))
            a == basicAuthLogin(Request(BasicHeader(b.username, b.password),
                                        None, NoCreds))
        IN  /\ a.status = 200 <=> j.status = 200
            /\ a.status = 200 =>
                 a.body.user = j.body.user /\ a.body.token = j.body.token
            /\ a.status # 200 => a = InvalidCredentials

\* the outcome of presenting a kept token on a request with the given cookie
Presented(i, cookie) == verifyJWT(Request(Bearer(i.tok), cookie, NoCreds))

InvalidToken ==
  ErrorJson(401, "Invalid token", "JWT token is invalid or expired")

\* C8 as claimed: a token issued at instant t is rejected by every
\* verification at or after t + 24 h and accepted by every verification
\* before t + 24 h.
C8_ExactWindow ==
  \A i \in issued :
    IF now >= i.at + ExpiresIn * 1000
    THEN Presented(i, None) = Reject(InvalidToken)
    ELSE Presented(i, None).next

\* C8 amended: the window is counted in whole seconds from the second of
\* issuance.  A token issued at instant t carries exp = floor(t / 1 s) +
\* 86400 and is rejected with the invalid-token 401 exactly when the
\* verifier's second is at or after exp; hence it is rejected by every
\* verification at or after t + 24 h and accepted by every verification up
\* to one second before t + 24 h.
C8_WindowInSeconds ==
  \A i \in issued :
    LET exp == (i.at \div 1000) + ExpiresIn
    IN  /\ i.tok.iat = i.at \div 1000
        /\ i.tok.exp = exp
        /\ IF NowSec >= exp
           THEN Presented(i, None) = Reject(InvalidToken)
           ELSE Presented(i, None).next
        /\ now >= i.at + ExpiresIn * 1000 => ~Presented(i, None).next
        /\ now + 1000 <= i.at + ExpiresIn * 1000 => Presented(i, None).next

\* a token presented 24 h after its issuance was refused on /auth/profile
C8_Witness ==
  /\ last.op = "profile"
  /\ last.status = 401
  /\ \E i \in issued :
       /\ now >= i.at + ExpiresIn * 1000
       /\ i.tok.sig = jwtSecret[1]
       /\ Presented(i, None) = Reject(InvalidToken)

\* C9: verifying an unexpired token issued for (id, username) attaches
\* exactly {userId: id, username: username}; a token obtained from register,
\* login or Basic login resolves on /auth/profile to the user it was issued
\* for.
C9_RoundTrip ==
  /\ jwtSecret # None =>
       \A id \in 1..(MaxUsers + 1), name \in RegUsernames :
         verifyJWT(Request(Bearer(generateJWT(id, name)[1]), None, NoCreds))
           = Continue(Some([userId |-> id, username |-> name]))
  /\ \A i \in issued :
       NowSec < i.tok.exp =>
         LET req == Request(Bearer(i.tok), None, NoCreds)
         IN  /\ Presented(i, None)
                  = Continue(Some([userId |-> i.user.id,
                                   username |-> i.user.username]))
             /\ Guarded(verifyJWT(req), req)
                  = Response(200, [NoBody EXCEPT !.user = Some(i.user)], FALSE)

\* /auth/profile answered 200 to an unexpired token issued at an earlier
\* instant, after other users were created
C9_Witness ==
  /\ last.op = "profile"
  /\ last.status = 200
  /\ \E i \in issued :
       /\ NowSec < i.tok.exp
       /\ i.at < now
       /\ i.user.id # nextId
       /\ Cardinality(users) > 1

\* C10: whatever session logins and logouts have happened, and whatever
\* session cookie accompanies it, an unexpired token signed with the
\* configured secret authenticates as its user.
C10_TokensOutliveLogout ==
  \A i \in issued, c \in Cookies :
    NowSec < i.tok.exp =>
      /\ Presented(i, c) = Continue(IdentityOf(i.tok))
      /\ authenticate(Request(Bearer(i.tok), c, NoCreds))
           = Continue(IdentityOf(i.tok))

\* after a logout answered 200, with no session left, /auth/me answered 200
C10_Witness ==
  /\ loggedOut # {}
  /\ \A sid \in SessionIds : sessions[sid] = None
  /\ last.op = "me"
  /\ last.status = 200
  /\ \E i \in issued : NowSec < i.tok.exp

InvalidTokenFormat ==
  ErrorJson(401, "Invalid token format", "Bearer token is missing")

ForgedTokens ==
  {Forge(t) : t \in Tokens}
    \cup {[userId |-> id, username |-> name, iat |-> NowSec,
           exp |-> NowSec + ExpiresIn, sig |-> ForgedSecret] :
           id \in 1..MaxUsers, name \in {uAbc, uXyz}}

\* C12: a token signed with another secret than the configured one never
\* authenticates, whatever claims it carries and whatever session comes with
\* it: verifyJWT and authenticate reject it with the 401 'Invalid token' and
\* attach no identity.
C12_ForgedNeverAuthenticates ==
  \A t \in ForgedTokens, c \in Cookies :
    LET req == Request(Bearer(t), c, NoCreds)
    IN  /\ ~verifyJWT(req).next
        /\ verifyJWT(req).user = None
        /\ authenticate(req) = verifyJWT(req)
        /\ jwtSecret # None => verifyJWT(req) = Reject(InvalidToken)

\* a refusal while a user exists whose unexpired token has a forged copy
C12_Witness ==
  /\ last.op \in {"profile", "me"}
  /\ last.status = 401
  /\ \E i \in issued :
       /\ Presented(i, None).next
       /\ findById(i.tok.userId) # None
       /\ Forge(i.tok) \in ForgedTokens

\* the identity a session binding stands for
SessionIdentity(req) ==
  Some([userId |-> SessionUser(req)[1].id,
        username |-> SessionUser(req)[1].username])

AuthenticationRequired ==
  ErrorJson(401, "Authentication required",
            "Please provide JWT token or login with session")

\* C13: behind authenticate a request without a 'Bearer ' header continues
\* with the user its session is bound to, and with no binding it is
\* rejected with 401 'Authentication required': the handler does not run,
\* the rejection is the response.
C13_SessionOrRequired ==
  \A h \in Headers \ BearerHeaders, c \in Cookies :
    LET req == Request(h, c, NoCreds)
        out == authenticate(req)
    IN  IF SessionUser(req) # None
        THEN out = Continue(SessionIdentity(req))
        ELSE /\ out = Reject(AuthenticationRequired)
             /\ Guarded(out, req) = AuthenticationRequired

\* /auth/me answered 200 through a bound session, no token being in use
C13_Witness ==
  /\ last.op = "me"
  /\ last.status = 200
  /\ issued = {}
  /\ \E sid \in SessionIds : sessions[sid] # None

OwnTokenValid(req) ==
  StartsWith(req.header, "Bearer") /\ TokenValid(SecondWord(req.header))

\* C15: for each of verifyJWT, verifySession and authenticate, and every
\* request in every reachable state: the request goes on to the handler if
\* and only if it carries an identity, it carries one if and only if its own
\* token verified or its own session is bound, the identity is the one of
\* that token or session, and a request that does not go on is answered by
\* the middleware's rejection instead of the handler.
C15_IdentityIffAuthenticated ==
  \A h \in Headers, c \in Cookies :
    LET req == Request(h, c, NoCreds)
        j == verifyJWT(req)
        s == verifySession(req)
        a == authenticate(req)
    IN  /\ \A out \in {j, s, a} :
             /\ out.next <=> out.user # None
             /\ out.next <=> out.res = None
             /\ ~out.next => Guarded(out, req) = out.res[1]
        /\ j.next <=> OwnTokenValid(req)
        /\ j.next => j.user = IdentityOf(SecondWord(h).tok[1])
        /\ s.next <=> SessionUser(req) # None
        /\ s.next => s.user = SessionIdentity(req)
        /\ a.next <=> IF StartsWith(h, "Bearer") THEN OwnTokenValid(req)
                                                 ELSE SessionUser(req) # None
        /\ a.next => a.user \in {j.user, s.user}

\* a request was refused on /auth/me while another client's
\* session is bound and a token is valid: nothing was carried over to it
C15_Witness ==
  /\ last.op = "me"
  /\ last.status = 401
  /\ \A sid \in SessionIds : sessions[sid] # None
  /\ \E t \in Tokens : TokenValid(JwtCred(t))
  /\ ~verifySession(Request(None, None, NoCreds)).next

LogoutFailed == ErrorJson(500, "Logout failed", "Could not clear session")

\* C16: a logout whose session destruction does not fail answers 200
\* whether or not the request's session is bound, and leaves that session
\* unbound; a logout of a request without a bound session changes nothing
\* in the session store, and one that repeats the logout just answered
\* leaves the whole state as the first left it.
C16_LogoutIdempotent ==
  [][\A cookie \in Cookies :
       Logout(cookie, TRUE) =>
         /\ last'.status = 200
         /\ cookie # None => sessions'[cookie[1]] = None
         /\ (cookie = None \/ sessions[cookie[1]] = None) => sessions' = sessions
         /\ ( /\ last = Answered("logout", logout(TRUE))
              /\ cookie # None
              /\ cookie[1] \in loggedOut ) => UNCHANGED vars]_vars

\* a logout was answered 200 and no session is bound: the state a second
\* logout starts from and ends in
C16_Witness ==
  /\ last.op = "logout"
  /\ last.status = 200
  /\ loggedOut # {}
  /\ \A sid \in SessionIds : sessions[sid] = None

\* C17: when the session store fails to destroy the session, logout answers
\* the 500 'Logout failed' and never 200; logout has no other answers than
\* 200 and 500, and a session whose logout was answered 200 is destroyed.
C17_FailedDestroyIs500 ==
  /\ logout(FALSE) = LogoutFailed
  /\ logout(FALSE).status # 200
  /\ last.op = "logout" => last.status \in {200, 500}
  /\ \A sid \in loggedOut : sessions[sid] = None

\* a logout was answered 500 and the session is still bound
C17_Witness ==
  /\ last.op = "logout"
  /\ last.status = 500
  /\ \E sid \in SessionIds : sessions[sid] # None

\* the user a body's credentials are correct for
CorrectFor(body) ==
  IF SchemaParse(body).ok THEN validateCredentials(SchemaParse(body).data)
  ELSE None

\* C18: a session login with correct credentials answers 200 with the user
\* and no token and binds the request's session to exactly that user's id
\* and username, whatever the session was bound to before; a request with
\* that session then resolves to that user, and the binding of a session
\* changes only by a session login answered 200 or by a logout.
C18_SessionLoginBinds ==
  [][/\ \A cookie \in Cookies, body \in LoginBodies :
          (/\ last'.op = "sessionLogin"
           /\ SessionLogin(cookie, body)
           /\ CorrectFor(body) # None) =>
            \A u \in {CorrectFor(body)[1]}, sid \in {SessionIdOf(cookie)},
               res \in {sessionLogin(Request(None, cookie, body))} :
                /\ res.status = 200
                /\ res.body.user = Some(Public(u))
                /\ res.body.token = None
                /\ sessions' = [sessions EXCEPT
                                  ![sid] = Some([id |-> u.id,
                                                 username |-> u.username])]
                /\ verifySession(Request(None, Some(sid), NoCreds))' =
                     Continue(Some([userId |-> u.id, username |-> u.username]))
     /\ \A sid \in SessionIds :
          sessions'[sid] # sessions[sid] =>
            \/ last'.op = "sessionLogin" /\ last'.status = 200
                                          /\ sessions'[sid] # None
            \/ last'.op = "logout" /\ sessions'[sid] = None]_vars

\* a session login was answered 200 for the second user and the session is
\* bound to that user
C18_Witness ==
  /\ last.op = "sessionLogin"
  /\ last.status = 200
  /\ Cardinality(users) = 2
  /\ \E sid \in SessionIds, u \in users :
       /\ u.id = 2
       /\ sessions[sid] = Some([id |-> u.id, username |-> u.username])

MissingBasicHeader ==
  ErrorJson(401, "Missing Basic Auth header",
            "Authorization header with Basic authentication required")
InvalidBasicFormat ==
  ErrorJson(401, "Invalid Basic Auth format",
            "Invalid Basic authentication credentials format")

\* no Authorization header, or one of another scheme, even one that carries
\* the base64 of a registered user's credentials
NotBasic ==
  {None,
   Header("Bearer", 1, TextCred(GarbageText)),
   Header("Bearer", 1, TextCred(Base64Encode(uAbc \o <<COLON>> \o pSecret))),
   Header("Basic", 0, TextCred(Base64Encode(uAbc \o <<COLON>> \o pSecret)))}

\* Basic payloads without a non-empty username and a non-empty password:
\* nothing, a second blank, no base64, no colon, ":secret", "abc:"
UndecodableBasic ==
  {Header("Basic", 1, EmptyCred),
   Header("Basic", 2, TextCred(Base64Encode(uAbc \o <<COLON>> \o pSecret))),
   Header("Basic", 1, TextCred(GarbageText)),
   Header("Basic", 1, TextCred(Base64Encode(uAbc))),
   Header("Basic", 1, TextCred(Base64Encode(<<COLON>> \o pSecret))),
   Header("Basic", 1, TextCred(Base64Encode(uAbc \o <<COLON>>)))}

\* C19: a Basic login whose Authorization header is missing or of another
\* scheme, or whose payload does not decode to a non-empty username and a
\* non-empty password, gets a fixed 401 that carries no token: the answer
\* is given before validateCredentials is reached, so it is the same
\* whatever users are stored.
C19_MalformedBasicIs401 ==
  /\ \A h \in NotBasic :
       basicAuthLogin(Request(h, None, NoCreds)) = MissingBasicHeader
  /\ \A h \in UndecodableBasic :
       /\ decodeBasicAuth(h) = None
       /\ basicAuthLogin(Request(h, None, NoCreds)) = InvalidBasicFormat
  /\ MissingBasicHeader.status = 401 /\ MissingBasicHeader.body.token = None
  /\ InvalidBasicFormat.status = 401 /\ InvalidBasicFormat.body.token = None

\* a Basic login was answered 401 without a token while the user whose
\* credentials the malformed headers carry is registered
C19_Witness ==
  /\ last.op = "basic"
  /\ last.status = 401
  /\ issued = {}
  /\ \E u \in users : u.username = uAbc /\ BcryptCompare(pSecret, u.password)

ConfigurationError ==
  ErrorJson(500, "Configuration error", "JWT secret not configured")

\* bearer credentials a client can present to a server without a secret:
\* tokens for any claims signed with any key, and text that is no token
PresentedCreds ==
  {JwtCred([userId |-> id, username |-> name, iat |-> NowSec,
            exp |-> NowSec + ExpiresIn, sig |-> key]) :
     id \in 1..MaxUsers, name \in {uAbc, uXyz},
     key \in Secrets \cup {ForgedSecret}}
    \cup {TextCred(GarbageText)}

\* C20: while no signing secret is configured, a login or Basic login with
\* correct credentials and the creation step of a registration are answered
\* 500 without a token, the verification of every presented bearer token is
\* answered the 500 'Configuration error' without an identity, whatever
\* session comes with it, and no client holds a token.
C20_NoSecretIs500 ==
  jwtSecret = None =>
    /\ \A body \in LoginBodies :
         CorrectFor(body) # None =>
           \A res \in {login(Request(None, None, body))} :
             res.status = 500 /\ res.body.token = None
    /\ \A c \in BasicCases :
         (c.creds # None /\ validateCredentials(c.creds[1]) # None) =>
           \A res \in {basicAuthLogin(c.request)} :
             res.status = 500 /\ res.body.token = None
    /\ \A body \in RegBodies :
         (SchemaParse(body).ok
            /\ ~DuplicateKey(SchemaParse(body).data.username)) =>
           \A res \in {registerCreate(SchemaParse(body).data)} :
             res.status = 500 /\ res.body.token = None
    /\ \A cred \in PresentedCreds, c \in Cookies :
         \A req \in {Request(Header("Bearer", 1, cred), c, NoCreds)} :
           /\ verifyJWT(req) = Reject(ConfigurationError)
           /\ authenticate(req) = Reject(ConfigurationError)
    /\ issued = {}
    /\ last.op \in {"register", "login", "basic"} => last.status \notin {200, 201}

\* without a secret, a login for a registered user was answered 500
C20_Witness ==
  /\ jwtSecret = None
  /\ last.op = "login"
  /\ last.status = 500
  /\ users # {}

NotAuthenticated ==
  ErrorJson(401, "Not authenticated", "User not found in request context")
UserNotFound ==
  ErrorJson(404, "User not found", "User profile does not exist")

\* identities a request context can hold: none, or any id and username,
\* ids that were never handed out included
Identities ==
  {None} \cup {Some([userId |-> id, username |-> name]) :
                 id \in 1..(MaxUsers + 1), name \in {uAbc, uXyz}}

\* req.user?.userId ?? req.session.user?.id
ResolvedId(req, reqUser) ==
  IF reqUser # None THEN Some(reqUser[1].userId)
  ELSE IF SessionUser(req) # None THEN Some(SessionUser(req)[1].id)
  ELSE None

\* C21: profile answers the 401 'Not authenticated' when the request context
\* resolves to no identity, the 404 'User not found' when no stored user has
\* the resolved id, and otherwise 200 with the one stored user of that id,
\* without the password.
C21_ProfileByResolvedId ==
  \A reqUser \in Identities, cookie \in Cookies :
    \A req \in {Request(None, cookie, NoCreds)} :
      \A id \in {ResolvedId(req, reqUser)}, res \in {profile(req, reqUser)} :
        /\ id = None => res = NotAuthenticated
        /\ (id # None /\ ~\E u \in users : u.id = id[1]) => res = UserNotFound
        /\ \A u \in users :
             (id # None /\ u.id = id[1]) =>
               /\ res.status = 200
               /\ res.body = [NoBody EXCEPT !.user = Some(Public(u))]
               /\ \A v \in users : v.id = u.id => v = u

\* a profile was answered 200 while two users are stored
C21_Witness ==
  /\ last.op \in {"profile", "sessionProfile", "me"}
  /\ last.status = 200
  /\ Cardinality(users) = 2

\* every response an auth entry point can give in the current state
Responses ==
  {registerCheck(b)[1] : b \in {x \in RegBodies : registerCheck(x) # None}}
    \cup {registerCreate(SchemaParse(b).data) :
            b \in {x \in RegBodies : SchemaParse(x).ok}}
    \cup {login(Request(None, None, b)) : b \in LoginBodies}
    \cup {sessionLogin(Request(None, None, b)) : b \in LoginBodies}
    \cup {basicAuthLogin(Request(h, None, NoCreds)) : h \in BasicHeaders}
    \cup {logout(d) : d \in BOOLEAN}
    \cup UNION {{Guarded(verifyJWT(Request(h, c, NoCreds)),
                          Request(h, c, NoCreds)),
                  Guarded(verifySession(Request(h, c, NoCreds)),
                          Request(h, c, NoCreds)),
                  Guarded(authenticate(Request(h, c, NoCreds)),
                          Request(h, c, NoCreds))} :
                   h \in Headers, c \in Cookies}

\* the fields of a user object and of a token payload in a response
UserFields == {"id", "username", "createdAt"}
PayloadFields == {"userId", "username", "iat", "exp", "sig"}

\* C22: in every reachable state, no response of register, the three
\* logins, logout and the three profile routes, error responses included,
\* has a password or password hash: a user object has the fields id,
\* username and createdAt only, a token payload has no password, and
\* validation details name fields without their values.
C22_NoPasswordInResponses ==
  \A res \in Responses :
    /\ DOMAIN res.body = DOMAIN NoBody
    /\ res.body.user # None => DOMAIN res.body.user[1] = UserFields
    /\ res.body.token # None => DOMAIN res.body.token[1] = PayloadFields
    /\ res.body.details # None => res.body.details[1] \subseteq {"username", "password"}

\* a login was answered 200, with the user in the body, for a stored user
\* that has a password hash
C22_Witness ==
  /\ last.op = "login"
  /\ last.status = 200
  /\ \E u \in users : "password" \in DOMAIN u
  /\ \E res \in Responses : res.status = 200 /\ res.body.user # None

\* C23: no step removes or changes a stored user: every user stored before
\* a step is stored after it with the same id, username, password hash and
\* creation time, and the only step that changes the collection is the
\* create of a registration, which adds one user.
C23_UsersOnlyAdded ==
  [][/\ users \subseteq users'
     /\ users' # users =>
          /\ last'.op = "register"
          /\ Cardinality(users') = Cardinality(users) + 1
          /\ \E r \in Slots : regs[r].pc = "checked" /\ regs'[r].pc = "idle"]_vars

\* two users are stored and requests other than registrations were answered
\* since
C23_Witness ==
  /\ Cardinality(users) = 2
  /\ last.op = "logout"
  /\ last.status = 200
  /\ loggedOut # {}

\* C24: GET /auth/profile answers 200 only to a request whose own bearer
\* token verifies and 401 to every request without a 'Bearer ' header,
\* bound session or not; GET /auth/session/profile answers 200 exactly to
\* the requests with a bound session and 401 to all others, valid bearer
\* token or not; GET /auth/me answers as /auth/profile when the request has
\* a 'Bearer ' header, and when it has none with the status of
\* /auth/session/profile, and its body when a session is bound.
C24_RouteCredentials ==
  \A h \in Headers, c \in Cookies :
    \A req \in {Request(h, c, NoCreds)} :
      \A p \in {Guarded(verifyJWT(req), req)},
         sp \in {Guarded(verifySession(req), req)},
         me \in {Guarded(authenticate(req), req)} :
        /\ p.status = 200 <=> OwnTokenValid(req)
        /\ ~StartsWith(h, "Bearer") => p.status = 401
        /\ sp.status = 200 <=> SessionUser(req) # None
        /\ SessionUser(req) = None => sp.status = 401
        /\ StartsWith(h, "Bearer") => me = p
        /\ ~StartsWith(h, "Bearer") =>
             /\ me.status = sp.status
             /\ SessionUser(req) # None => me = sp

\* /auth/session/profile answered 401 while a client holds a valid token
\* and no session is bound
C24_Witness ==
  /\ last.op = "sessionProfile"
  /\ last.status = 401
  /\ \E t \in Tokens : TokenValid(JwtCred(t))
  /\ \A sid \in SessionIds : sessions[sid] = None

\* the request has neither a bearer token that verifies nor a bound session
Unauthenticated(req) == ~OwnTokenValid(req) /\ SessionUser(req) = None

\* the request presents a non-empty bearer token to a server without secret
Unconfigured(req) ==
  /\ jwtSecret = None
  /\ StartsWith(req.header, "Bearer")
  /\ Truthy(SecondWord(req.header))

Errors ==
  {ZodError(paths) : paths \in SUBSET {"username", "password"} \ {{}}}
    \cup {SecretError, MongoError, NotFoundError}

\* the responses the global error handler gives to them
HandlerResponses == {errorHandler(e) : e \in Errors}

\* every rejection of an auth entry point, of the authentication middleware
\* and of the global error handler, in the current state
Rejections == {res \in Responses \cup HandlerResponses : res.status >= 400}

\* C26 as stated: every rejection body has an error and a message.
C26_ErrorAndMessage ==
  \A res \in Rejections :
    res.body.error # None /\ res.body.message # None

\* C26: every rejection body has an error field. The rejections written by
\* an entry point or by the authentication middleware have a message field
\* too; the ones written by the global error handler (validation failures,
\* errors with a status code, unexpected errors) have none, and only the
\* validation ones have details.
C26_ErrorAlwaysMessageOutsideHandler ==
  /\ \A res \in Rejections :
       /\ res.body.error # None
       /\ res.body.message = None <=> res \in HandlerResponses
  /\ \A e \in Errors :
       /\ errorHandler(e).status >= 400
       /\ errorHandler(e).body.details # None <=> e.kind = "ZodError"

\* a login was refused by the global error handler for want of a secret,
\* while other rejections of that state carry a message
C26_Witness ==
  /\ last.op = "login"
  /\ last.status = 500
  /\ login(Request(None, None, EventUser)) \in HandlerResponses
  /\ \E res \in Rejections : res.body.message # None

\* ------------------------------------------------------------------- C27
\* new ValidationError('bad payload'): an AppError with statusCode 400
ValidationError ==
  [kind |-> "ValidationError", paths |-> {}, statusCode |-> 400,
   message |-> "bad payload"]

\* the errors handed to the global error handler: schema-validation errors,
\* errors with a status code, and errors without one
ThrownErrors == Errors \cup {ValidationError, PlainError("Error", "boom")}

\* the errors without a status code that are no validation errors
Unexpected == {e \in ThrownErrors : e.kind # "ZodError" /\ e.statusCode = 0}

InternalServerError ==
  Response(500, [NoBody EXCEPT !.error = Some("Internal Server Error")], FALSE)

\* C27: the global error handler answers a schema-validation error 400
\* 'Validation error' with the offending fields as details, an error with
\* its own status code that status with its own message, and every other
\* error 500 with the one body 'Internal Server Error'; the message of an
\* unexpected error is in no response of any auth route.
C27_ErrorHandlerMapping ==
  /\ \A e \in ThrownErrors :
       LET r == errorHandler(e)
       IN  IF e.kind = "ZodError"
           THEN /\ r.status = 400
                /\ r.body = [NoBody EXCEPT !.error = Some("Validation error"),
                                           !.details = Some(e.paths)]
           ELSE IF e.statusCode # 0
           THEN /\ r.status = e.statusCode
                /\ r.body = [NoBody EXCEPT !.error = Some(e.message)]
           ELSE r = InternalServerError
  /\ \A res \in Responses \cup {errorHandler(e) : e \in ThrownErrors} :
       \A e \in Unexpected :
         /\ res.body.error # Some(e.message)
         /\ res.body.message # Some(e.message)
  /\ \A res \in Responses :
       (res.status = 500 /\ res # LogoutFailed /\ res # ConfigurationError)
         => res = InternalServerError

\* a registration was answered 500 by the error handler: the user was
\* created and signing the token threw for want of a secret
C27_Witness ==
  /\ last.op = "register"
  /\ last.status = 500
  /\ jwtSecret = None
  /\ users # {}
  /\ errorHandler(SecretError) = InternalServerError

\* ------------------------------------------------------------------- C28
\* z.string(): the field is missing (or no string); .min(n): it is shorter
Missing(v) == v = NotAString
TooShort(v, min) == v # NotAString /\ Len(v) < min

\* the fields of a body that are missing or too short
Faults(body) ==
  {f \in {"username"} :
     Missing(body.username) \/ TooShort(body.username, UsernameMin)}
    \cup {f \in {"password"} :
            Missing(body.password) \/ TooShort(body.password, PasswordMin)}

\* C28: in every reachable state, register, login and session login answer
\* a body with a missing or too-short username or password 400 'Validation
\* error' naming exactly those fields, whatever the stored users and
\* whatever the session, with no user and no token in the body; and the
\* step that answers it leaves the users, the registrations in flight, the
\* sessions and the tokens held as they were.
C28_ShapeFirst ==
  [][/\ \A body \in MalformedBodies :
          \A rej \in {errorHandler(ZodError(Faults(body)))} :
            /\ rej.status = 400
            /\ rej.body.user = None /\ rej.body.token = None
            /\ registerCheck(body) = Some(rej)
            /\ login(Request(None, None, body)) = rej
            /\ \A cookie \in Cookies :
                 sessionLogin(Request(None, cookie, body)) = rej
     /\ last'.op \in {"register", "login", "sessionLogin"} =>
          \A body \in MalformedBodies :
            (\/ RegisterBegin(1, body)
             \/ Login(body)
             \/ \E cookie \in Cookies : SessionLogin(cookie, body)) =>
              /\ last'.status = 400
              /\ UNCHANGED << users, nextId, regs, sessions, nextSid,
                              issued, okLog, loggedOut >>]_vars

\* a session login with a malformed body was answered 400 while a user is
\* stored, and no session is bound
C28_Witness ==
  /\ last.op = "sessionLogin"
  /\ last.status = 400
  /\ users # {}
  /\ \A sid \in SessionIds : sessions[sid] = None

\* ------------------------------------------------------------------- C29
\* the requests authenticate lets through to the event handlers
Authenticated ==
  {req \in {Request(cred[1], cred[2], NoCreds) : cred \in EventCreds} :
     authenticate(req).next}

\* C29: in every reachable state, for every id that is not in the events
\* collection (never used, or deleted) and every authenticated request:
\* get, delete and update with data that passes the schema are answered by
\* the error handler for NotFoundError('Event'), 404 'Event not found', and
\* the collection after the request is the collection before.
C29_UnknownIdIs404 ==
  \A id \in AskedIds :
    eventFindById(id) = None =>
      \A nf \in {errorHandler(NotFoundError)} :
        /\ nf.status = 404
        /\ nf.body = [NoBody EXCEPT !.error = Some("Event not found")]
        /\ getEventById(id) = nf
        /\ deleteEvent(id) = nf
        /\ EventsAfterDelete(id) = events
        /\ \A body \in UpdateBodies :
             UpdateEventParse(body).ok =>
               /\ updateEvent(id, body) = nf
               /\ EventsAfterUpdate(id, UpdateEventParse(body).data) = events
        /\ \A req \in Authenticated :
             /\ Protected(req, getEventById(id)) = nf
             /\ Protected(req, deleteEvent(id)) = nf
             /\ StoreAfterDelete(req, id) = events
             /\ \A body \in UpdateBodies : StoreAfterUpdate(req, id, body) = events

\* an update of a deleted event was answered 404 while another event is
\* stored
C29_Witness ==
  /\ last.op = "updateEvent"
  /\ last.status = 404
  /\ events # {}
  /\ \E id \in 1..(nextEventId - 1) : eventFindById(id) = None

\* ------------------------------------------------------------------- C30
\* the fields of an event other than its id
EventFields ==
  {"nombre", "descripcion", "cantidad", "fecha", "tipo", "adjunto"}

\* the value of field f of event e after an update with the body: the value
\* supplied, or the stored one when the body leaves the field out
FieldAfter(e, body, f) ==
  IF body[f] = None THEN e[f]
  ELSE IF f \in {"descripcion", "adjunto"} THEN body[f] ELSE body[f][1]

\* GET /eventos/:id answered with the event
Found(e) ==
  Response(200, [NoBody EXCEPT !.event = Some(renderEvent(e))], FALSE)

\* C30: on every step of the event routes, for every request (body, id)
\* that the answer and the collection after the step are those of:
\*  - a create answered 201 adds exactly one event, whose id is a fresh one
\*    that no stored event has and is the id in the response; after the
\*    step get-by-id returns it and the list holds and counts it;
\*  - an update answered 200 replaces the event of that id by one with the
\*    same id, the supplied fields set and every other field as stored,
\*    and touches no other event;
\*  - a delete answered 204 removes exactly the event of that id; after the
\*    step get-by-id answers 404, the list does not hold it and counts one
\*    less; no other event is touched;
\*  - a stored event stays stored, under the same id, on every step that
\*    is not a delete answered 204, and every stored event is returned by
\*    get-by-id and held by the list.
C30_EventLifecycle ==
  [][/\ \A body \in CreateBodies :
          (/\ last'.op = "createEvent"
           /\ last'.status = 201
           /\ CreateEventParse(body).ok
           /\ events' = events \cup {EventToCreate(CreateEventParse(body).data)}) =>
            \E e \in events' :
              /\ e.id = nextEventId
              /\ \A f \in events : f.id # e.id
              /\ events' = events \cup {e}
              /\ createEvent(body).body.event = Some(renderEvent(e))
              /\ getEventById(e.id)' = Found(e)
              /\ e \in eventFindAll(NoQuery)'.data
              /\ eventFindAll(NoQuery)'.total = eventFindAll(NoQuery).total + 1
     /\ \A id \in AskedIds, body \in UpdateBodies :
          (/\ last'.op = "updateEvent"
           /\ last'.status = 200
           /\ UpdateEventParse(body).ok
           /\ eventFindById(id) # None
           /\ events' = EventsAfterUpdate(id, UpdateEventParse(body).data)) =>
            \E e \in events, e2 \in events' :
              /\ e.id = id
              /\ e2.id = id
              /\ \A f \in EventFields : e2[f] = FieldAfter(e, body, f)
              /\ events' = (events \ {e}) \cup {e2}
              /\ updateEvent(id, body).body.event = Some(renderEvent(e2))
     /\ \A id \in AskedIds :
          (/\ last'.op = "deleteEvent"
           /\ last'.status = 204
           /\ eventDelete(id)
           /\ events' = EventsAfterDelete(id)) =>
            /\ \E e \in events : e.id = id /\ events' = events \ {e}
            /\ getEventById(id)' = errorHandler(NotFoundError)
            /\ \A e \in eventFindAll(NoQuery)'.data : e.id # id
            /\ eventFindAll(NoQuery)'.total = eventFindAll(NoQuery).total - 1
     /\ \A e \in events :
          /\ getEventById(e.id) = Found(e)
          /\ e \in eventFindAll(NoQuery).data
          /\ \/ \E f \in events' : f.id = e.id
             \/ last'.op = "deleteEvent" /\ last'.status = 204]_vars

\* an event was created, another one created and updated, and the first
\* one deleted with 204: one event is left, with the updated amount
C30_Witness ==
  /\ last.op = "deleteEvent"
  /\ last.status = 204
  /\ nextEventId = 3
  /\ \E e \in events : events = {e} /\ e.id = 2 /\ e.cantidad = 600000

\* ------------------------------------------------------------------- C31
\* the queries of a listing: each of tipo, page and limit given or left out
ListQueries ==
  [tipo : {None, Some("ingreso"), Some("egreso")},
   page : {None, Some(1), Some(2), Some(3)},
   limit : {None, Some(1), Some(2)}]

\* sizes of a filtered collection, pages and limits, small ones and ones
\* past the clamp of the offset
ListTotals == {0, 1, 2, OffsetMax + 2}
ListPages == {1, 2, 3, OffsetMax + 2}
ListLimits == {1, 2, LimitDefault, LimitMax}

\* the positions (from 0) of page `page` of `total` documents, limit a page
Window(total, page, limit) ==
  {p \in ((page - 1) * limit)..(page * limit - 1) : p < total}

\* the stored events that match the tipo filter of a query, and the
\* position of one of them among these in insertion order
Matching(q) ==
  IF q.tipo = None THEN events ELSE {e \in events : e.tipo = q.tipo[1]}
Position(e, q) == Cardinality({f \in Matching(q) : f.id < e.id})

C32_FailedRegisterKeepsStore ==
  [][(last'.op = "register" /\ last'.status # 201) => users' = users]_vars


\* ------------------------------------------------------------------- C33
\* the user a token names: a stored user with the id and the username of
\* the token's claims
Named(tok) ==
  {u \in users : u.id = tok.userId /\ u.username = tok.username}

\* the stored users whose password the given credentials verify
VerifiedBy(credentials) ==
  {u \in users : /\ u.username = credentials.username
                 /\ BcryptCompare(credentials.password, u.password)}

\* C33: a token is issued only by the registration that has just created
\* the user or by a login whose credentials have just been verified against
\* that user's stored hash, and its claims are the id and the username of
\* that stored user: a JSON login answers with a token only when its body
\* has the required shape and the (trimmed) username and the password
\* verify a stored user, whom the token names; a Basic login only when the
\* header decodes to a username and a password that verify a stored user,
\* whom the token names; a session login answers with no token; and every
\* token a client holds, the one of a registration included, names a stored
\* user, the one returned beside it.
C33_TokenOnlyAfterVerification ==
  /\ \A body \in LoginBodies \cup MalformedBodies :
       LET res == login(Request(None, None, body))
       IN  /\ res.body.token # None =>
                /\ SchemaParse(body).ok
                /\ Named(res.body.token[1]) # {}
                /\ Named(res.body.token[1])
                     \subseteq VerifiedBy(SchemaParse(body).data)
           /\ sessionLogin(Request(None, None, body)).body.token = None
  /\ \A header \in BasicHeaders :
       LET res == basicAuthLogin(Request(header, None, NoCreds))
       IN  res.body.token # None =>
             /\ decodeBasicAuth(header) # None
             /\ Named(res.body.token[1]) # {}
             /\ Named(res.body.token[1])
                  \subseteq VerifiedBy(decodeBasicAuth(header)[1])
  /\ \A i \in issued :
       /\ Named(i.tok) # {}
       /\ \A u \in Named(i.tok) : i.user = Public(u)

\* a registration has handed out a token, and a JSON login and a Basic
\* login with the registered credentials are answered with one, while a
\* login with another password is not
C33_Witness ==
  /\ issued # {}
  /\ last.op = "login" /\ last.status = 200
  /\ \E body \in LoginBodies :
       /\ login(Request(None, None, body)).body.token # None
       /\ basicAuthLogin(Request(BasicHeader(body.username, body.password),
                                 None, NoCreds)).body.token # None
  /\ \E body \in LoginBodies :
       /\ findByUsername(body.username) # None
       /\ login(Request(None, None, body)).body.token = None

\* ------------------------------------------------------------------- C34
\* C34 as stated: every stored username has between 3 and 50 characters and
\* neither begins nor ends with whitespace.
C34_StoredUsernames ==
  \A u \in users :
    /\ Len(u.username) >= UsernameMin
    /\ Len(u.username) <= UsernameMax
    /\ Trim(u.username) = u.username


\* ------------------------------------------------------------------- C35
\* the two ways a middleware may end: one call of next and no response, or
\* one response and no call of next
OneOutcome(calls) ==
  \/ calls = Called
  \/ Len(calls) = 1 /\ calls[1].call = "json"

\* C35: for every request in every reachable state, each of verifyJWT,
\* verifySession, authenticate and optionalAuth either calls next once and
\* sends nothing or sends one error response (status 401 or 500) and does
\* not call next; the single call is next exactly when the request goes on
\* with the middleware's outcome, and otherwise it is the response of that
\* outcome.
C35_ExactlyOneOutcome ==
  \A h \in Headers, c \in Cookies :
    LET req == Request(h, c, NoCreds)
    IN  \A m \in {<<verifyJWTCalls(req), verifyJWT(req)>>,
                  <<verifySessionCalls(req), verifySession(req)>>,
                  <<authenticateCalls(req), authenticate(req)>>,
                  <<optionalAuthCalls(req), optionalAuth(req)>>} :
          /\ OneOutcome(m[1])
          /\ m[1] = Called <=> m[2].next
          /\ ~m[2].next =>
               /\ m[1] = Sent(m[2].res[1].status)
               /\ m[2].res[1].status \in {401, 500}

\* /auth/me has just refused a request, and a bearer token is refused on a
\* request whose session is bound: verifyJWT, authenticate and optionalAuth
\* send the one response, verifySession calls next
C35_Witness ==
  /\ last.op = "me" /\ last.status = 401
  /\ \E h \in Headers, c \in Cookies :
       LET req == Request(h, c, NoCreds)
       IN  /\ StartsWith(h, "Bearer")
           /\ SessionUser(req) # None
           /\ verifyJWTCalls(req) = Sent(401)
           /\ authenticateCalls(req) = Sent(401)
           /\ optionalAuthCalls(req) = Sent(401)
           /\ verifySessionCalls(req) = Called
  /\ \E h \in Headers :
       optionalAuthCalls(Request(h, None, NoCreds)) = Called


\* ------------------------------------------------------------------- C36
\* the requests that only read: JSON login, Basic login and the three
\* profile endpoints
Readers == {"login", "basic", "profile", "sessionProfile", "me"}

\* C36: on every step, a JSON login, a Basic login, a request to
\* /auth/profile, /auth/session/profile or /auth/me, whatever its answer,
\* and a session login that is not answered 200 leave the users and the
\* sessions as they were; so a session bound before a failed session login
\* is bound to the same user after it.
C36_ReadersChangeNoStore ==
  [][(\/ last'.op \in Readers
      \/ last'.op = "sessionLogin" /\ last'.status # 200)
       => /\ users' = users
          /\ sessions' = sessions]_vars

\* a session login has just been refused with 401 while every session is
\* bound to a stored user
C36_Witness ==
  /\ last.op = "sessionLogin" /\ last.status = 401
  /\ users # {}
  /\ \A sid \in SessionIds : sessions[sid] # None


\* ------------------------------------------------------------------- C37
\* Authorization headers that do not begin with 'Bearer ': a Basic header
\* with the credentials of a registered user, a token a client holds under
\* the scheme in another letter case, and the scheme without the blank
OtherSchemes ==
  {BasicHeader(uAbc, pSecret), BasicHeader(uXyz, pColon)}
    \cup {Header(scheme, 1, JwtCred(t)) :
            scheme \in {"bearer", "BEARER"}, t \in Tokens}
    \cup {Header("Bearer", 0, JwtCred(t)) : t \in Tokens}

\* C37: for every such header and every cookie, authenticate gives the
\* request the outcome it gives the same request without an Authorization
\* header, and /auth/me the same answer: with a bound session the request
\* goes on with the identity of the session, without one it is rejected
\* with 401 'Authentication required', also when the token in the header
\* would have verified as a bearer token.
C37_OtherSchemesAreNoHeader ==
  \A h \in OtherSchemes, c \in Cookies :
    LET req == Request(h, c, NoCreds)
        bare == Request(None, c, NoCreds)
        out == authenticate(req)
    IN  /\ out = authenticate(bare)
        /\ Guarded(out, req) = Guarded(authenticate(bare), bare)
        /\ IF SessionUser(req) # None
           THEN /\ out.next
                /\ out.user = SessionIdentity(req)
           ELSE /\ ~out.next
                /\ out.res = Some(AuthenticationRequired)

\* /auth/me has just answered 401 while a client holds a token that
\* verifies as a bearer token: under 'bearer ' it is rejected without a
\* session and goes on as the session's user with one
C37_Witness ==
  /\ last.op = "me" /\ last.status = 401
  /\ \E t \in Tokens, c \in Cookies :
       /\ authenticate(Request(Bearer(t), None, NoCreds)).next
       /\ ~authenticate(Request(Header("bearer", 1, JwtCred(t)), None,
                                NoCreds)).next
       /\ SessionUser(Request(None, c, NoCreds)) # None
       /\ authenticate(Request(Header("bearer", 1, JwtCred(t)), c,
                               NoCreds)).next

\* ------------------------------------------------------------------- C38
\* C38 as stated: MongoDB is not disconnected, nor being disconnected, before
\* the server has finished closing, and when the process has exited after
\* termination signals, one or several, it has exited with code 0, the
\* server closed and MongoDB disconnected.
C38_GracefulShutdown ==
  /\ readyState # "connected" => server = "closed"
  /\ exitCode # None =>
       /\ exitCode = Some(0)
       /\ server = "closed"
       /\ readyState = "disconnected"
====
